---- MODULE Spec2Model ----
(***************************************************************************)
(* Desired-state reconciliation in the Anypoint Platform Ansible plugins.  *)
(*                                                                         *)
(* Every plugin is one run_module(): read the remote state, decide, issue  *)
(* the mutating remote calls, exit_json / fail_json.  A run is modelled    *)
(* step by step: one action per remote call of the plugin, `pc` holding    *)
(* the position inside run_module.  The remote platform is the variable    *)
(* `backend`; `calls` records the mutating calls of the current run in the *)
(* order they were issued; `history` keeps the finished runs so that two   *)
(* runs with the same parameters can be compared.                          *)
(*                                                                         *)
(* A remote call that succeeds returns the decoded payload of the remote   *)
(* resource; a mutating call may also fail (HTTP exception, non-zero exit  *)
(* code of anypoint-cli), which ends the run through fail_json.            *)
(***************************************************************************)
EXTENDS Integers, Sequences, FiniteSets, TLC

VARIABLES
    mod,        \* the plugin that is running
    params,     \* module.params
    backend,    \* state of the remote platform
    pc,         \* position inside run_module
    observed,   \* what the read of the current run returned
    context,    \* the context dict computed by the read
    calls,      \* mutating remote calls issued by the current run, in order
    result,     \* outcome of the current run
    history     \* finished runs: <<[result, calls]>>

vars == <<mod, params, backend, pc, observed, context, calls, result, history>>

\* Python's None
None == "None"

\* number of runs executed in sequence with the same parameters
MaxRuns == 2

\* result dict at the start of run_module (changed=False, msg='No action taken')
InitResult == [outcome |-> "running", changed |-> FALSE, msg |-> "No action taken"]

NoContext == [do_nothing |-> FALSE]

\* nothing has been read yet
NotRead == <<>>

\* module.exit_json(**result)
exit_json(r) == [r EXCEPT !.outcome = "exit"]

\* module.fail_json(msg=...)
fail_json(m) == [outcome |-> "fail", changed |-> FALSE, msg |-> m]

\* an exception nobody catches: the interpreter ends with a traceback
crash(m) == [outcome |-> "crash", changed |-> FALSE, msg |-> m]

Finished == pc = "done"

\* The same task is executed again against the backend the previous run left
NextRun ==
    /\ pc = "done"
    /\ Len(history) < MaxRuns - 1
    /\ history' = Append(history, [result |-> result, calls |-> calls])
    /\ pc' = "start"
    /\ calls' = <<>>
    /\ result' = InitResult
    /\ context' = NoContext
    /\ observed' = NotRead
    /\ UNCHANGED <<mod, params, backend>>

(***************************************************************************)
(* anypoint/ap_account_user.py                                             *)
(***************************************************************************)
UserNames == {"n1", "n2"}
UserStates == {"present", "disabled", "absent"}

\* the user the task is about; the organization may hold one more user
UserTarget == "gcamino"
UserOther == [username |-> "other", id |-> "id0", firstName |-> "n1",
              lastName |-> "n1", email |-> "n1", enabled |-> TRUE]

UserParams ==
    [name : {UserTarget}, state : UserStates, first_name : UserNames,
     last_name : UserNames, email : UserNames, check_mode : BOOLEAN]

UserRecords ==
    [username : {UserTarget}, id : {"id1"}, firstName : UserNames,
     lastName : UserNames, email : UserNames, enabled : BOOLEAN]

\* the users of the organization, as the list the users endpoint returns
UserBackends ==
    {<<>>, <<UserOther>>}
    \cup {<<u>> : u \in UserRecords}
    \cup {<<UserOther, u>> : u \in UserRecords}

\* ap_account_common.get_users_list
get_users_list(b) == b

user_needs_update(p, user) ==
    \/ p.first_name # user.firstName
    \/ p.last_name # user.lastName
    \/ p.email # user.email

\* index of the first user of the list with the declared username, 0 if none
UserFind(p, users) ==
    IF \E i \in 1..Len(users) : users[i].username = p.name
    THEN CHOOSE i \in 1..Len(users) :
            /\ users[i].username = p.name
            /\ \A j \in 1..(i - 1) : users[j].username # p.name
    ELSE 0

\* slip: the disabled target forgets to look at the current enablement
User_do_nothing_NoEnabledCheck(p, id, enabled, needs_update) ==
    CASE p.state = "absent" -> id = None
      [] p.state = "present" ->
            IF id = None THEN FALSE ELSE ~(needs_update \/ enabled = FALSE)
      [] p.state = "disabled" -> ~(id # None)

\* slip: a missing user is taken as nothing to do
User_do_nothing_MissingIsNoop(p, id, enabled, needs_update) ==
    CASE p.state = "absent" -> id = None
      [] p.state = "present" ->
            IF id = None THEN TRUE ELSE ~(needs_update \/ enabled = FALSE)
      [] p.state = "disabled" -> ~(id # None /\ enabled = TRUE)

User_do_nothing(p, id, enabled, needs_update) ==
    CASE p.state = "absent" -> id = None
      [] p.state = "present" ->
            IF id = None THEN FALSE ELSE ~(needs_update \/ enabled = FALSE)
      [] p.state = "disabled" -> ~(id # None /\ enabled = TRUE)

User_get_context_value(p, b) ==
    LET users == get_users_list(b)
        i == UserFind(p, users)
        id == IF i = 0 THEN None ELSE users[i].id
        enabled == IF i = 0 THEN FALSE ELSE users[i].enabled
        needs_update == IF i = 0 THEN FALSE ELSE user_needs_update(p, users[i])
    IN [do_nothing |-> User_do_nothing(p, id, enabled, needs_update),
        id |-> id, enabled |-> enabled]

InitUser ==
    /\ mod = "ap_account_user"
    /\ params \in UserParams
    /\ backend \in UserBackends
    /\ pc = "start"
    /\ observed = NotRead
    /\ context = NoContext
    /\ calls = <<>>
    /\ result = InitResult
    /\ history = <<>>

\* run_module: if module.check_mode: module.exit_json(**result)
User_check_mode ==
    /\ mod = "ap_account_user" /\ pc = "start"
    /\ params.check_mode
    /\ result' = exit_json(result)
    /\ pc' = "done"
    /\ UNCHANGED <<mod, params, backend, observed, context, calls, history>>

\* run_module: context = get_context(module); exit if do_nothing
User_get_context ==
    /\ mod = "ap_account_user" /\ pc = "start"
    /\ ~params.check_mode
    /\ observed' = get_users_list(backend)
    /\ context' = User_get_context_value(params, backend)
    /\ IF context'.do_nothing
       THEN /\ result' = exit_json(result)
            /\ pc' = "done"
       ELSE /\ result' = result
            /\ pc' = "act"
    /\ UNCHANGED <<mod, params, backend, calls, history>>

\* the run ends: result['changed'] = True; module.exit_json(**result)
User_exit_changed(m) == exit_json([result EXCEPT !.changed = TRUE, !.msg = m])

User_create_user ==
    /\ mod = "ap_account_user" /\ pc = "act"
    /\ params.state = "present" /\ context.id = None
    /\ calls' = Append(calls, [op |-> "create_user", id |-> None])
    /\ \/ /\ backend' = Append(backend,
                [username |-> params.name, id |-> "id1",
                 firstName |-> params.first_name, lastName |-> params.last_name,
                 email |-> params.email, enabled |-> TRUE])
          /\ result' = User_exit_changed("user created")
       \/ /\ backend' = backend
          /\ result' = fail_json("[create_user] Error executing HTTP call")
    /\ pc' = "done"
    /\ UNCHANGED <<mod, params, observed, context, history>>

\* slip: the PUT of update_user leaves the email out of the payload
UserPutFields_NoEmail(users, id, p) ==
    [i \in 1..Len(users) |->
        IF users[i].id = id
        THEN [users[i] EXCEPT !.firstName = p.first_name, !.lastName = p.last_name]
        ELSE users[i]]

\* PUT .../users/<id> with the payload of update_user
UserPutFields(users, id, p) ==
    [i \in 1..Len(users) |->
        IF users[i].id = id
        THEN [users[i] EXCEPT !.firstName = p.first_name, !.lastName = p.last_name,
                              !.email = p.email]
        ELSE users[i]]

\* PUT .../users with the payload [{id, enabled}] of change_user_enablement
UserPutEnabled(users, id, enabled) ==
    [i \in 1..Len(users) |->
        IF users[i].id = id THEN [users[i] EXCEPT !.enabled = enabled] ELSE users[i]]

\* slip: update_user forgets the enablement
User_update_user_NoEnable ==
    /\ mod = "ap_account_user" /\ pc = "act"
    /\ params.state = "present" /\ context.id # None
    /\ calls' = Append(calls, [op |-> "update_user", id |-> context.id])
    /\ \/ /\ backend' = UserPutFields(backend, context.id, params)
          /\ result' = User_exit_changed("user updated")
       \/ /\ backend' = backend
          /\ result' = fail_json("[update_user] Error executing HTTP call")
    /\ pc' = "done"
    /\ UNCHANGED <<mod, params, observed, context, history>>

\* update_user, the PUT of the user's fields
User_update_user ==
    /\ mod = "ap_account_user" /\ pc = "act"
    /\ params.state = "present" /\ context.id # None
    /\ calls' = Append(calls, [op |-> "update_user", id |-> context.id])
    /\ \/ /\ backend' = UserPutFields(backend, context.id, params)
          /\ IF context.enabled = FALSE
             THEN /\ pc' = "enable"
                  /\ result' = result
             ELSE /\ pc' = "done"
                  /\ result' = User_exit_changed("user updated")
       \/ /\ backend' = backend
          /\ result' = fail_json("[update_user] Error executing HTTP call")
          /\ pc' = "done"
    /\ UNCHANGED <<mod, params, observed, context, history>>

\* update_user: if context['enabled'] is False: change_user_enablement(True)
User_update_user_enable ==
    /\ mod = "ap_account_user" /\ pc = "enable"
    /\ calls' = Append(calls, [op |-> "enable", id |-> context.id])
    /\ \/ /\ backend' = UserPutEnabled(backend, context.id, TRUE)
          /\ result' = User_exit_changed("user updated")
       \/ /\ backend' = backend
          /\ result' = fail_json("[change_user_enablement] Error executing HTTP call")
    /\ pc' = "done"
    /\ UNCHANGED <<mod, params, observed, context, history>>

User_delete_user ==
    /\ mod = "ap_account_user" /\ pc = "act"
    /\ params.state = "absent"
    /\ calls' = Append(calls, [op |-> "delete_user", id |-> context.id])
    /\ \/ /\ backend' = SelectSeq(backend, LAMBDA u : u.id # context.id)
          /\ result' = User_exit_changed("user deleted")
       \/ /\ backend' = backend
          /\ result' = fail_json("[delete_user] Error executing HTTP call")
    /\ pc' = "done"
    /\ UNCHANGED <<mod, params, observed, context, history>>

\* disable_user: change_user_enablement(module, context, False)
User_disable_user ==
    /\ mod = "ap_account_user" /\ pc = "act"
    /\ params.state = "disabled"
    /\ calls' = Append(calls, [op |-> "disable", id |-> context.id])
    /\ \/ /\ backend' = UserPutEnabled(backend, context.id, FALSE)
          /\ result' = User_exit_changed("user disabled")
       \/ /\ backend' = backend
          /\ result' = fail_json("[change_user_enablement] Error executing HTTP call")
    /\ pc' = "done"
    /\ UNCHANGED <<mod, params, observed, context, history>>

NextUser ==
    \/ User_check_mode
    \/ User_get_context
    \/ User_create_user
    \/ User_update_user
    \/ User_update_user_enable
    \/ User_delete_user
    \/ User_disable_user
    \/ NextRun

SpecUser == InitUser /\ [][NextUser]_vars

(***************************************************************************)
(* mulesoft/ap_api_mgr_policy.py                                           *)
(***************************************************************************)
PolicyStates == {"present", "enabled", "disabled", "absent"}
PolicyVersions == {"1.0.0", "1.1.8"}
PolicyTarget == "client-id-enforcement"

\* content of the files behind config_path; "unreadable" is a path open() fails on
PolicyConfigs == {"cfgA", "cfgB"}
PolicyConfigPaths == {"cfgA", "unreadable"}

\* module.params['options']: None when the task gives no options
PolicyOptions ==
    {<<>>} \cup
    {<<o>> : o \in [group_id : {None, "grp"}, config_path : PolicyConfigPaths,
                    pointcut_path : {None, "pc"}]}

PolicyParams ==
    [name : {PolicyTarget}, state : PolicyStates, policy_version : PolicyVersions,
     options : PolicyOptions, check_mode : BOOLEAN]

PolicyOther ==
    [AssetID |-> "rate-limiting", ID |-> "100", AssetVersion |-> "1.0.0",
     Status |-> "Enabled", config |-> "cfgB"]

PolicyRecords ==
    [AssetID : {PolicyTarget}, ID : {"101"}, AssetVersion : PolicyVersions,
     Status : {"Enabled", "Disabled"}, config : PolicyConfigs]

\* the policies applied on the managed API, as 'api-mgr policy list' prints them
PolicyBackends ==
    {<<>>, <<PolicyOther>>}
    \cup {<<r>> : r \in PolicyRecords}
    \cup {<<r, PolicyOther>> : r \in PolicyRecords}

get_applied_policies(b) == b

\* the loop of do_no_action has no break: the last matching item is kept
PolicyFind(p, list) ==
    IF \E i \in 1..Len(list) : list[i].AssetID = p.name
    THEN CHOOSE i \in 1..Len(list) :
            /\ list[i].AssetID = p.name
            /\ \A j \in (i + 1)..Len(list) : list[j].AssetID # p.name
    ELSE 0

Policy_do_nothing(p, policy_id, policy_enabled) ==
    CASE p.state = "enabled" -> policy_enabled = TRUE
      [] p.state = "disabled" -> policy_enabled = FALSE
      [] p.state = "absent" -> policy_id = None
      [] OTHER -> FALSE

Policy_context(p, list) ==
    LET i == PolicyFind(p, list)
        policy_id == IF i = 0 THEN None ELSE list[i].ID
        enabled == IF i = 0 THEN FALSE ELSE list[i].Status = "Enabled"
    IN [do_nothing |-> Policy_do_nothing(p, policy_id, enabled),
        policy_id |-> policy_id,
        policy_asset_version |-> IF i = 0 THEN None ELSE list[i].AssetVersion,
        policy_enabled |-> enabled]

InitPolicy ==
    /\ mod = "ap_api_mgr_policy"
    /\ params \in PolicyParams
    /\ backend \in PolicyBackends
    /\ pc = "start"
    /\ observed = NotRead
    /\ context = NoContext
    /\ calls = <<>>
    /\ result = InitResult
    /\ history = <<>>

\* run_module: context = do_no_action(...); exit on do_nothing; exit on check mode
Policy_do_no_action ==
    /\ mod = "ap_api_mgr_policy" /\ pc = "start"
    /\ observed' = get_applied_policies(backend)
    /\ context' = Policy_context(params, observed')
    /\ IF params.state \in {"enabled", "disabled"} /\ context'.policy_id = None
       THEN /\ result' = fail_json(params.state \o " state requires an existing policy applied")
            /\ pc' = "done"
       ELSE IF context'.do_nothing \/ params.check_mode
       THEN /\ result' = exit_json(result)
            /\ pc' = "done"
       ELSE /\ result' = result
            /\ pc' = "act"
    /\ UNCHANGED <<mod, params, backend, calls, history>>

\* result['changed'] = True; result['policy_id'] = context['policy_id']; exit_json
Policy_exit_changed(m) == exit_json([result EXCEPT !.changed = TRUE, !.msg = m])

PolicyWithout(list, id) == SelectSeq(list, LAMBDA r : r.ID # id)

\* apply_edit_policy_on_api, lines 241-246: the applied policy has another
\* version, remove it and forget it
Policy_remove_for_replace ==
    /\ mod = "ap_api_mgr_policy" /\ pc = "act"
    /\ params.state = "present"
    /\ context.policy_id # None
    /\ context.policy_asset_version # params.policy_version
    /\ calls' = Append(calls, [op |-> "remove", id |-> context.policy_id])
    /\ \/ /\ backend' = PolicyWithout(backend, context.policy_id)
          /\ context' = [context EXCEPT !.policy_id = None,
                                        !.policy_asset_version = None,
                                        !.policy_enabled = FALSE]
          /\ pc' = "options"
          /\ result' = result
       \/ /\ backend' = backend
          /\ context' = context
          /\ pc' = "done"
          /\ result' = fail_json("remove failed")
    /\ UNCHANGED <<mod, params, observed, history>>

\* apply_edit_policy_on_api, lines 249-260: can the option files be read
Policy_options_readable(p) ==
    /\ p.options # <<>>
    /\ p.options[1].config_path # "unreadable"

\* the policy `id` with the configuration of the edit command
PolicyEdit(list, id, cfg) ==
    [i \in 1..Len(list) |->
        IF list[i].ID = id THEN [list[i] EXCEPT !.config = cfg] ELSE list[i]]

\* apply_edit_policy_on_api, lines 247-288: read the options, then edit the
\* applied policy or apply a new one
Policy_apply_edit ==
    /\ mod = "ap_api_mgr_policy"
    /\ params.state = "present"
    /\ \/ pc = "options"
       \/ /\ pc = "act"
          /\ ~(context.policy_id # None
                /\ context.policy_asset_version # params.policy_version)
    /\ pc' = "done"
    /\ IF ~Policy_options_readable(params)
       THEN /\ result' = fail_json("open failed")
            /\ UNCHANGED <<backend, calls, context>>
       ELSE IF context.policy_id # None
       THEN /\ calls' = Append(calls, [op |-> "edit", id |-> context.policy_id])
            /\ context' = context
            /\ \/ /\ backend' = PolicyEdit(backend, context.policy_id,
                                           params.options[1].config_path)
                  /\ result' = Policy_exit_changed("edit")
               \/ /\ backend' = backend
                  /\ result' = fail_json("edit failed")
       ELSE IF params.options[1].group_id # None
       THEN \* module.params['group_id'] is not a key of module.params
            /\ result' = crash("KeyError: 'group_id'")
            /\ UNCHANGED <<backend, calls, context>>
       ELSE /\ calls' = Append(calls, [op |-> "apply", id |-> None])
            /\ \/ /\ backend' = Append(backend,
                        [AssetID |-> params.name, ID |-> "102",
                         AssetVersion |-> params.policy_version,
                         Status |-> "Enabled",
                         config |-> params.options[1].config_path])
                  /\ context' = [context EXCEPT !.policy_id = "102"]
                  /\ result' = Policy_exit_changed("Policy applied. New policy ID: 102")
               \/ /\ backend' = backend
                  /\ context' = context
                  /\ result' = fail_json("apply failed")
    /\ UNCHANGED <<mod, params, observed, history>>

PolicySetStatus(list, id, st) ==
    [i \in 1..Len(list) |->
        IF list[i].ID = id THEN [list[i] EXCEPT !.Status = st] ELSE list[i]]

Policy_enable_policy_on_api ==
    /\ mod = "ap_api_mgr_policy" /\ pc = "act"
    /\ params.state = "enabled"
    /\ calls' = Append(calls, [op |-> "enable", id |-> context.policy_id])
    /\ \/ /\ backend' = PolicySetStatus(backend, context.policy_id, "Enabled")
          /\ result' = Policy_exit_changed("enable")
       \/ /\ backend' = backend
          /\ result' = fail_json("enable failed")
    /\ pc' = "done"
    /\ UNCHANGED <<mod, params, observed, context, history>>

Policy_disable_policy_on_api ==
    /\ mod = "ap_api_mgr_policy" /\ pc = "act"
    /\ params.state = "disabled"
    /\ calls' = Append(calls, [op |-> "disable", id |-> context.policy_id])
    /\ \/ /\ backend' = PolicySetStatus(backend, context.policy_id, "Disabled")
          /\ result' = Policy_exit_changed("disable")
       \/ /\ backend' = backend
          /\ result' = fail_json("disable failed")
    /\ pc' = "done"
    /\ UNCHANGED <<mod, params, observed, context, history>>

Policy_remove_policy_from_api ==
    /\ mod = "ap_api_mgr_policy" /\ pc = "act"
    /\ params.state = "absent"
    /\ calls' = Append(calls, [op |-> "remove", id |-> context.policy_id])
    /\ \/ /\ backend' = PolicyWithout(backend, context.policy_id)
          /\ result' = Policy_exit_changed("remove")
       \/ /\ backend' = backend
          /\ result' = fail_json("remove failed")
    /\ pc' = "done"
    /\ UNCHANGED <<mod, params, observed, context, history>>

NextPolicy ==
    \/ Policy_do_no_action
    \/ Policy_remove_for_replace
    \/ Policy_apply_edit
    \/ Policy_enable_policy_on_api
    \/ Policy_disable_policy_on_api
    \/ Policy_remove_policy_from_api
    \/ NextRun

SpecPolicy == InitPolicy /\ [][NextPolicy]_vars

(***************************************************************************)
(* module_utils/ap_exchange_common.py                                      *)
(***************************************************************************)
\* icon files on the controller and the MD5 digest of their content
\* (module.md5); logo.png and copy.png hold the same image
IconPaths == {"logo.png", "copy.png", "new.svg"}
md5(path) ==
    CASE path = "logo.png" -> "9e107d9d"
      [] path = "copy.png" -> "9e107d9d"
      [] path = "new.svg" -> "e4d909c2"

ExchangeTags == {<<>>, <<"t1">>, <<"t1", "t2">>, <<"t2", "t1">>}
ExchangeNames == {"My Fragment", "Renamed"}
ExchangeDescriptions == {"", "some text"}

\* the 'files' of an asset: the icon, if any, comes after the main file
ExchangeFiles ==
    {<<[classifier |-> "raml", md5 |-> "0cc175b9"]>>}
    \cup {<<[classifier |-> "raml", md5 |-> "0cc175b9"], [classifier |-> "icon", md5 |-> d]>> :
            d \in {"9e107d9d", "e4d909c2"}}

\* an asset as GET /exchange/api/v2/assets/<group>/<asset>/<version> returns it
ExchangeAssets ==
    [status : {"published", "deprecated"}, name : ExchangeNames,
     labels : ExchangeTags, description : ExchangeDescriptions,
     files : ExchangeFiles]

\* analyze_asset, lines 89-93: the first file classified as icon, 0 if none
ActualIcon(files) ==
    IF \E i \in 1..Len(files) : files[i].classifier = "icon"
    THEN CHOOSE i \in 1..Len(files) :
            /\ files[i].classifier = "icon"
            /\ \A j \in 1..(i - 1) : files[j].classifier # "icon"
    ELSE 0

\* analyze_asset, lines 94-103
must_update_icon(icon, files) ==
    LET a == ActualIcon(files) IN
    IF (a = 0 /\ icon # None) \/ (a # 0 /\ icon = None)
    THEN TRUE
    ELSE IF a # 0 /\ icon # None
         THEN md5(icon) = files[a].md5
         ELSE FALSE

analyze_asset(name, description, icon, tags, resp_json) ==
    LET mu_name == name # None /\ name # resp_json.name
        mu_tags == tags # resp_json.labels
        mu_description == description # resp_json.description
        mu_icon == must_update_icon(icon, resp_json.files)
    IN [must_update |-> mu_description \/ mu_icon \/ mu_tags \/ mu_name,
        must_update_name |-> mu_name,
        must_update_icon |-> mu_icon,
        must_update_description |-> mu_description,
        must_update_tags |-> mu_tags,
        deprecated |-> resp_json.status = "deprecated"]

\* the arguments of analyze_asset that take part in the comparison
AnalyzeArgs ==
    [name : {None} \cup ExchangeNames, description : ExchangeDescriptions,
     icon : {None} \cup IconPaths, tags : ExchangeTags]

InitAnalyze ==
    /\ mod = "ap_exchange_common"
    /\ params \in AnalyzeArgs
    /\ backend \in ExchangeAssets
    /\ pc = "start"
    /\ observed = NotRead
    /\ context = NoContext
    /\ calls = <<>>
    /\ result = InitResult
    /\ history = <<>>

\* a caller reads the asset and analyzes it
Analyze_asset ==
    /\ mod = "ap_exchange_common" /\ pc = "start"
    /\ observed' = <<backend>>
    /\ context' = analyze_asset(params.name, params.description, params.icon,
                                params.tags, backend)
    /\ pc' = "done"
    /\ UNCHANGED <<mod, params, backend, calls, result, history>>

NextAnalyze == Analyze_asset

SpecAnalyze == InitAnalyze /\ [][NextAnalyze]_vars

\* modify_exchange_asset: the calls it issues for the flags of the context,
\* in the order tags, description, icon, name
modify_exchange_asset_calls(ctx) ==
    (IF ctx.exchange_must_update_tags THEN <<"set_asset_tags">> ELSE <<>>)
    \o (IF ctx.exchange_must_update_description THEN <<"set_asset_description">> ELSE <<>>)
    \o (IF ctx.exchange_must_update_icon THEN <<"set_asset_icon">> ELSE <<>>)
    \o (IF ctx.exchange_must_update_name THEN <<"set_asset_name">> ELSE <<>>)

\* the files of an asset after set_asset_icon: DELETE of the icon when icon
\* is None, PUT of the image otherwise
FilesWithIcon(files, icon) ==
    LET rest == SelectSeq(files, LAMBDA f : f.classifier # "icon") IN
    IF icon = None THEN rest
    ELSE Append(rest, [classifier |-> "icon", md5 |-> md5(icon)])

\* the asset after one of the set_asset_* calls succeeded
ExchangeApply(asset, op, name, description, icon, tags) ==
    CASE op = "set_asset_tags" -> [asset EXCEPT !.labels = tags]
      [] op = "set_asset_description" ->
            [asset EXCEPT !.description = IF description = None THEN "" ELSE description]
      [] op = "set_asset_icon" -> [asset EXCEPT !.files = FilesWithIcon(asset.files, icon)]
      [] op = "set_asset_name" -> [asset EXCEPT !.name = name]

(***************************************************************************)
(* anypoint/ap_design_center_project.py                                    *)
(***************************************************************************)
DCPStates == {"present", "published", "unpublished", "absent"}
DCPTarget == "My Fragment"

\* exchange_metadata with the three options that have no default given
DCPMetaBase ==
    [main |-> "api.raml", api_version |-> "1.0", group_id |-> "grp",
     asset_id |-> "my-fragment", asset_version |-> "1.0.0", name |-> None,
     description |-> "", icon |-> None, tags |-> <<>>]

DCPMetaFull ==
    [main : {"api.raml"}, api_version : {"1.0"}, group_id : {"grp"},
     asset_id : {"my-fragment"}, asset_version : {"1.0.0"},
     name : {None, "Renamed"}, description : {"", "some text"},
     icon : {None, "logo.png"}, tags : {<<>>, <<"t1">>}]

\* exchange_metadata given without main, without group_id, without asset_id
DCPMetaMissing ==
    {[DCPMetaBase EXCEPT !.main = None], [DCPMetaBase EXCEPT !.group_id = None],
     [DCPMetaBase EXCEPT !.asset_id = None]}

\* module.params['exchange_metadata']: <<>> is None (option not given)
DCPMetaOption(metas) == {<<>>} \cup {<<m>> : m \in metas}

DCPParamsFor(states, metas) ==
    [name : {DCPTarget}, state : states, type : {"raml"},
     project_dir : {None, "/tmp/my-fragment"}, organization_id : {None, "org1"},
     exchange_metadata : DCPMetaOption(metas), check_mode : BOOLEAN]

DCPParams ==
    DCPParamsFor(DCPStates \ {"published"}, {DCPMetaBase} \cup DCPMetaMissing)
    \cup DCPParamsFor({"published"}, DCPMetaFull \cup DCPMetaMissing)

\* the projects 'designcenter project list "<name>"' prints
DCPProjects ==
    {<<>>, <<[Name |-> DCPTarget, ID |-> "p1"]>>,
     <<[Name |-> "My Fragment 2", ID |-> "p2"]>>,
     <<[Name |-> DCPTarget, ID |-> "p1"], [Name |-> "My Fragment 2", ID |-> "p2"]>>}

DCPAssets ==
    [assetId : {"my-fragment"}, groupId : {"grp"}, version : {"1.0.0"},
     type : {"rest-api"}, status : {"published"}, name : ExchangeNames,
     labels : {<<>>, <<"t1">>}, description : ExchangeDescriptions,
     files : ExchangeFiles]

\* Design Center (projects and the content uploaded to the target project)
\* and Exchange (the assets the GraphQL query returns)
DCPBackends ==
    [projects : DCPProjects, uploaded : {None}, assets : {<<>>} \cup {<<a>> : a \in DCPAssets}]

\* get_context_design_center: the loop keeps the last project with the name
get_context_design_center(p, projects) ==
    IF \E i \in 1..Len(projects) : projects[i].Name = p.name
    THEN projects[CHOOSE i \in 1..Len(projects) :
            /\ projects[i].Name = p.name
            /\ \A j \in (i + 1)..Len(projects) : projects[j].Name # p.name].ID
    ELSE None

DCP_asset_type(p) == IF p.type = "raml" THEN "rest-api" ELSE p.type

\* get_context_exchange: index of the last asset of the answer that matches
DCPFindAsset(p, assets) ==
    LET em == p.exchange_metadata[1]
        match(i) == /\ em.asset_id = assets[i].assetId
                    /\ em.group_id = assets[i].groupId
                    /\ em.asset_version = assets[i].version
                    /\ DCP_asset_type(p) = assets[i].type
    IN IF \E i \in 1..Len(assets) : match(i)
       THEN CHOOSE i \in 1..Len(assets) :
                match(i) /\ \A j \in (i + 1)..Len(assets) : ~match(j)
       ELSE 0

get_context_exchange(p, assets) ==
    IF DCPFindAsset(p, assets) = 0 THEN None
    ELSE assets[DCPFindAsset(p, assets)].assetId

\* get_context_exchange builds the GraphQL query by string concatenation:
\* it raises when exchange_metadata, group_id or asset_id is None
DCP_exchange_query_raises(p) ==
    \/ p.exchange_metadata = <<>>
    \/ p.exchange_metadata[1].group_id = None
    \/ p.exchange_metadata[1].asset_id = None

DCPNoAnalysis ==
    [must_update |-> FALSE, must_update_name |-> FALSE, must_update_icon |-> FALSE,
     must_update_description |-> FALSE, must_update_tags |-> FALSE]

DCP_get_context_value(p, b) ==
    LET exchange == p.state \in {"published", "unpublished"}
        exchange_id == IF exchange THEN get_context_exchange(p, b.assets) ELSE None
        em == p.exchange_metadata[1]
        out == IF exchange_id # None /\ p.state = "published"
               THEN analyze_asset(em.name, em.description, em.icon, em.tags,
                                  b.assets[DCPFindAsset(p, b.assets)])
               ELSE DCPNoAnalysis
    IN [do_nothing |-> FALSE,
        design_center_id |-> get_context_design_center(p, b.projects),
        exchange_id |-> exchange_id,
        exchange_must_update |-> out.must_update,
        exchange_must_update_name |-> out.must_update_name,
        exchange_must_update_icon |-> out.must_update_icon,
        exchange_must_update_description |-> out.must_update_description,
        exchange_must_update_tags |-> out.must_update_tags,
        pending |-> <<>>]

\* run_module, lines 412-436: the message of the failed argument check, None if they pass
DCP_check_arguments(p) ==
    IF p.state \in {"present", "published"}
    THEN IF p.project_dir # None /\ p.organization_id = None
         THEN "present and published states needs 'organization_id' option"
         ELSE IF p.state \in {"published", "unpublished"}
         THEN IF p.exchange_metadata[1].main = None
              THEN "published|unpublished state needs 'exchange_metadata.main' option"
              ELSE IF p.exchange_metadata[1].group_id = None
              THEN "published|unpublished state needs 'exchange_metadata.group_id' option"
              ELSE IF p.exchange_metadata[1].asset_id = None
              THEN "published|unpublished state needs 'exchange_metadata.asset_id' option"
              ELSE None
         ELSE None
    ELSE None

\* run_module, lines 449-489: nothing to do for the context that was read
DCP_do_nothing(p, ctx) ==
    CASE p.state = "published" ->
            /\ ctx.design_center_id # None
            /\ ctx.exchange_id # None
            /\ ctx.exchange_must_update = FALSE
      [] p.state = "present" -> ctx.design_center_id # None /\ p.project_dir = None
      [] p.state = "unpublished" -> ctx.exchange_id = None
      [] p.state = "absent" -> ctx.design_center_id = None

\* run_module, lines 462-479: the position after the design center part
DCP_after_design_center(p, ctx) ==
    IF p.state = "published" /\ ctx.exchange_id = None THEN "publish"
    ELSE IF p.state = "published" /\ ctx.exchange_must_update THEN "modify"
    ELSE "exit"

DCP_after_create(p, ctx) ==
    IF p.project_dir # None THEN "upload" ELSE DCP_after_design_center(p, ctx)

InitDCP ==
    /\ mod = "ap_design_center_project"
    /\ params \in DCPParams
    /\ backend \in DCPBackends
    /\ pc = "start"
    /\ observed = NotRead
    /\ context = NoContext
    /\ calls = <<>>
    /\ result = InitResult
    /\ history = <<>>

\* run_module, lines 412-460 and 480-487: argument checks, check mode, the
\* read, and the exits that need no remote change
DCP_get_context ==
    /\ mod = "ap_design_center_project" /\ pc = "start"
    /\ UNCHANGED <<mod, params, backend, calls, history>>
    /\ IF params.state \in {"present", "published"} /\ params.exchange_metadata = <<>>
       THEN \* module.params['exchange_metadata'].get('icon') on None
            /\ result' = crash("AttributeError: 'NoneType' object has no attribute 'get'")
            /\ pc' = "done"
            /\ UNCHANGED <<observed, context>>
       ELSE IF DCP_check_arguments(params) # None
       THEN /\ result' = fail_json(DCP_check_arguments(params))
            /\ pc' = "done"
            /\ UNCHANGED <<observed, context>>
       ELSE IF params.check_mode
       THEN /\ result' = exit_json(result)
            /\ pc' = "done"
            /\ UNCHANGED <<observed, context>>
       ELSE IF params.state \in {"published", "unpublished"}
               /\ DCP_exchange_query_raises(params)
       THEN /\ result' = crash("exception in get_context_exchange")
            /\ pc' = "done"
            /\ observed' = <<[projects |-> backend.projects]>>
            /\ context' = context
       ELSE /\ observed' = <<backend>>
            /\ context' = DCP_get_context_value(params, backend)
            /\ IF DCP_do_nothing(params, context')
               THEN /\ result' = exit_json(result)
                    /\ pc' = "done"
               ELSE /\ result' = result
                    /\ pc' = "act"

\* result['msg'] = output; result['changed'] = True; module.exit_json(**result)
DCP_exit_changed(m) == exit_json([result EXCEPT !.changed = TRUE, !.msg = m])

\* what follows a successful call: the next position, or the exit
DCP_goto(next, m) ==
    IF next = "exit"
    THEN /\ pc' = "done"
         /\ result' = DCP_exit_changed(m)
    ELSE /\ pc' = next
         /\ result' = result

DCP_fail(m) ==
    /\ pc' = "done"
    /\ result' = fail_json(m)
    /\ UNCHANGED <<backend, context>>

DCP_create_empty_project ==
    /\ mod = "ap_design_center_project" /\ pc = "act"
    /\ params.state \in {"present", "published"}
    /\ context.design_center_id = None
    /\ calls' = Append(calls, [op |-> "create", id |-> None])
    /\ \/ /\ backend' = [backend EXCEPT !.projects =
                            Append(@, [Name |-> params.name, ID |-> "p3"])]
          /\ context' = context
          /\ DCP_goto(DCP_after_create(params, context), "Project created")
       \/ DCP_fail("[create_empty_project] failed")
    /\ UNCHANGED <<mod, params, observed, history>>

\* prepare_project_to_upload and upload_project
DCP_upload_project ==
    /\ mod = "ap_design_center_project"
    /\ params.state \in {"present", "published"}
    /\ params.project_dir # None
    /\ \/ pc = "upload"
       \/ pc = "act" /\ context.design_center_id # None
    /\ calls' = Append(calls, [op |-> "upload", id |-> params.name])
    /\ \/ /\ backend' = [backend EXCEPT !.uploaded = params.project_dir]
          /\ context' = context
          /\ DCP_goto(DCP_after_design_center(params, context), "Project uploaded")
       \/ DCP_fail("[upload_project] failed")
    /\ UNCHANGED <<mod, params, observed, history>>

\* publish_project_to_exchange, lines 336-342: the flags set after the publish
DCP_publish_flags(p, ctx) ==
    LET em == p.exchange_metadata[1] IN
    [ctx EXCEPT
        !.exchange_must_update_description =
            IF em.description # None /\ em.description # "" THEN TRUE ELSE @,
        !.exchange_must_update_icon = IF em.icon # None THEN TRUE ELSE @,
        !.exchange_must_update_name =
            IF em.name # None /\ em.name # p.name THEN TRUE ELSE @]

\* the asset Exchange holds after 'designcenter project publish'
DCP_published_asset(p) ==
    LET em == p.exchange_metadata[1] IN
    [assetId |-> em.asset_id, groupId |-> em.group_id, version |-> em.asset_version,
     type |-> DCP_asset_type(p), status |-> "published", name |-> p.name,
     labels |-> em.tags, description |-> "",
     files |-> <<[classifier |-> "raml", md5 |-> "0cc175b9"]>>]

\* the position after the calls of modify_exchange_asset are laid out
DCP_modify_goto(ctx, m) ==
    IF ctx.pending = <<>> THEN DCP_goto("exit", m) ELSE DCP_goto("modify_calls", m)

\* publish_project_to_exchange: the publish command
DCP_publish_project_to_exchange ==
    /\ mod = "ap_design_center_project"
    /\ params.state = "published"
    /\ \/ pc = "publish"
       \/ /\ pc = "act" /\ context.design_center_id # None
          /\ params.project_dir = None
    /\ context.exchange_id = None
    /\ calls' = Append(calls, [op |-> "publish", id |-> params.name])
    /\ \/ /\ backend' = [backend EXCEPT !.assets = Append(@, DCP_published_asset(params))]
          /\ context' = [DCP_publish_flags(params, context) EXCEPT
                            !.pending = modify_exchange_asset_calls(
                                            DCP_publish_flags(params, context))]
          /\ DCP_modify_goto(context', "Project published to Exchange")
       \/ DCP_fail("[publish_project_to_exchange] failed")
    /\ UNCHANGED <<mod, params, observed, history>>

\* run_module, lines 475-479: the asset exists and its metadata must change
DCP_modify_exchange_asset ==
    /\ mod = "ap_design_center_project"
    /\ params.state = "published"
    /\ \/ pc = "modify"
       \/ /\ pc = "act" /\ context.design_center_id # None
          /\ params.project_dir = None
    /\ context.exchange_id # None
    /\ context' = [context EXCEPT !.pending = modify_exchange_asset_calls(context)]
    /\ pc' = "modify_calls"
    /\ UNCHANGED <<mod, params, backend, observed, calls, result, history>>

\* the index of the asset of the task among the assets of Exchange
DCPAssetIndex(p, assets) ==
    CHOOSE i \in 1..Len(assets) :
        /\ assets[i].assetId = p.exchange_metadata[1].asset_id
        /\ assets[i].groupId = p.exchange_metadata[1].group_id

\* modify_exchange_asset: the next set_asset_* call.  The call made from
\* publish_project_to_exchange passes [] as tags.
DCP_set_asset ==
    /\ mod = "ap_design_center_project" /\ pc = "modify_calls"
    /\ context.pending # <<>>
    /\ calls' = Append(calls, [op |-> Head(context.pending), id |-> params.name])
    /\ LET em == params.exchange_metadata[1]
           i == DCPAssetIndex(params, backend.assets)
       IN \/ /\ backend' = [backend EXCEPT !.assets[i] =
                    ExchangeApply(@, Head(context.pending), em.name,
                                  em.description, em.icon, em.tags)]
             /\ context' = [context EXCEPT !.pending = Tail(@)]
             /\ IF Tail(context.pending) = <<>>
                THEN DCP_goto("exit", "Asset modified")
                ELSE DCP_goto("modify_calls", "Asset modified")
          \/ DCP_fail("[set_asset] Error executing HTTP call")
    /\ UNCHANGED <<mod, params, observed, history>>

\* unpublish_project_from_exchange: DELETE of the asset
DCP_unpublish_project_from_exchange ==
    /\ mod = "ap_design_center_project" /\ pc = "act"
    /\ params.state = "unpublished"
    /\ calls' = Append(calls, [op |-> "delete_exchange_asset", id |-> context.exchange_id])
    /\ \/ /\ backend' = [backend EXCEPT !.assets =
                SelectSeq(@, LAMBDA a : a.assetId # context.exchange_id)]
          /\ context' = context
          /\ DCP_goto("exit", "Asset unpublished from Exchange")
       \/ DCP_fail("[delete_exchange_asset] Error executing HTTP call")
    /\ UNCHANGED <<mod, params, observed, history>>

DCP_delete_project ==
    /\ mod = "ap_design_center_project" /\ pc = "act"
    /\ params.state = "absent"
    /\ calls' = Append(calls, [op |-> "delete", id |-> params.name])
    /\ \/ /\ backend' = [backend EXCEPT
                !.projects = SelectSeq(@, LAMBDA r : r.Name # params.name),
                !.uploaded = None]
          /\ context' = context
          /\ DCP_goto("exit", "Project deleted")
       \/ DCP_fail("[delete_project] failed")
    /\ UNCHANGED <<mod, params, observed, history>>

NextDCP ==
    \/ DCP_get_context
    \/ DCP_create_empty_project
    \/ DCP_upload_project
    \/ DCP_publish_project_to_exchange
    \/ DCP_modify_exchange_asset
    \/ DCP_set_asset
    \/ DCP_unpublish_project_from_exchange
    \/ DCP_delete_project
    \/ NextRun

SpecDCP == InitDCP /\ [][NextDCP]_vars

(***************************************************************************)
(* anypoint/ap_api_mgr_automated_policy.py                                 *)
(***************************************************************************)
APTarget == "client-id-enforcement"
APVersions == {"1.1.8", "1.2.0"}

\* ruleOfApplication of an applied policy: the default rule the module
\* builds from its parameters, or another one
APDefaultRule == "env1/org1/from-4.1.1"
APRules == {APDefaultRule, "env1/org1/from-4.2.0"}

\* the JSON documents behind configuration_data_path and pointcut_data_path;
\* "unreadable" is a path that open() or json.load() fails on
APConfigPaths == {"cfgA", "unreadable"}
APConfigs == {"cfgA", "cfgB"}
APPointcuts == {None, "pcA"}

APParams ==
    [name : {APTarget}, state : {"present", "absent"}, version : APVersions,
     configuration_data_path : {None} \cup APConfigPaths,
     pointcut_data_path : APPointcuts, check_mode : BOOLEAN]

APOther ==
    [assetId |-> "rate-limiting", id |-> "200", assetVersion |-> "1.1.8",
     disabled |-> FALSE, configurationData |-> "cfgB", pointcutData |-> None,
     ruleOfApplication |-> APDefaultRule]

APRecords(ids) ==
    [assetId : {APTarget}, id : ids, assetVersion : APVersions,
     disabled : BOOLEAN, configurationData : APConfigs,
     pointcutData : APPointcuts, ruleOfApplication : APRules]

\* a second automated policy with the same assetId
APSecond ==
    [assetId : {APTarget}, id : {"202"}, assetVersion : APVersions,
     disabled : {FALSE}, configurationData : APConfigs,
     pointcutData : {None}, ruleOfApplication : {APDefaultRule}]

\* 'automatedPolicies' of the environment
APBackends ==
    {<<>>, <<APOther>>}
    \cup {<<r>> : r \in APRecords({"201"})}
    \cup {<<r, APOther>> : r \in APRecords({"201"})}
    \cup {<<r, r2>> : r \in APRecords({"201"}), r2 \in APSecond}

AP_get_applied_policies(b) == b

\* the loop of get_context has no break: the last matching item is kept
APFind(p, list) ==
    IF \E i \in 1..Len(list) : list[i].assetId = p.name
    THEN CHOOSE i \in 1..Len(list) :
            /\ list[i].assetId = p.name
            /\ \A j \in (i + 1)..Len(list) : list[j].assetId # p.name
    ELSE 0

\* need_to_update_configuration (the configuration file is readable)
need_to_update_configuration(p, policy_configuration, policy_pointcut, policy_rule_of_application) ==
    ~(/\ APDefaultRule = policy_rule_of_application
      /\ policy_configuration = p.configuration_data_path
      /\ policy_pointcut = p.pointcut_data_path)

AP_do_nothing(p, list) ==
    LET i == APFind(p, list) IN
    CASE p.state = "present" ->
            /\ i # 0
            /\ ~need_to_update_configuration(p, list[i].configurationData,
                    list[i].pointcutData, list[i].ruleOfApplication)
      [] p.state = "absent" -> i = 0

AP_context(p, list) ==
    LET i == APFind(p, list) IN
    [do_nothing |-> AP_do_nothing(p, list),
     policy_id |-> IF i = 0 THEN None ELSE list[i].id,
     policy_asset_version |-> IF i = 0 THEN None ELSE list[i].assetVersion,
     policy_enabled |-> IF i = 0 THEN FALSE ELSE list[i].disabled = FALSE]

\* read_policy_configuration_from_file ends the run with fail_json
AP_config_unreadable(p) ==
    p.configuration_data_path \in {None, "unreadable"}

InitAP ==
    /\ mod = "ap_api_mgr_automated_policy"
    /\ params \in APParams
    /\ backend \in APBackends
    /\ pc = "start"
    /\ observed = NotRead
    /\ context = NoContext
    /\ calls = <<>>
    /\ result = InitResult
    /\ history = <<>>

\* run_module, lines 337-358: parameter checks, get_context, the do-nothing
\* exit and the check-mode exit
AP_get_context ==
    /\ mod = "ap_api_mgr_automated_policy" /\ pc = "start"
    /\ UNCHANGED <<mod, params, backend, calls, history>>
    /\ IF params.state = "present" /\ params.configuration_data_path = None
       THEN /\ result' = fail_json("'configuration_data_path' parameter must be specified for 'present' state")
            /\ pc' = "done"
            /\ UNCHANGED <<observed, context>>
       ELSE /\ observed' = AP_get_applied_policies(backend)
            /\ IF /\ params.state = "present" /\ APFind(params, observed') # 0
                  /\ AP_config_unreadable(params)
               THEN /\ result' = fail_json("[read_policy_configuration_from_file] Error reading configuration data file")
                    /\ pc' = "done"
                    /\ context' = context
               ELSE /\ context' = AP_context(params, observed')
                    /\ IF context'.do_nothing \/ params.check_mode
                       THEN /\ result' = exit_json(result)
                            /\ pc' = "done"
                       ELSE /\ result' = result
                            /\ pc' = "act"

AP_exit_changed(m) == exit_json([result EXCEPT !.changed = TRUE, !.msg = m])

APWithout(list, id) == SelectSeq(list, LAMBDA r : r.id # id)

\* apply_edit_automated_policy, lines 255-260: another version is applied,
\* remove it
AP_remove_for_replace ==
    /\ mod = "ap_api_mgr_automated_policy" /\ pc = "act"
    /\ params.state = "present"
    /\ context.policy_id # None
    /\ context.policy_asset_version # params.version
    /\ calls' = Append(calls, [op |-> "DELETE", id |-> context.policy_id])
    /\ \/ /\ backend' = APWithout(backend, context.policy_id)
          /\ context' = [context EXCEPT !.policy_id = None,
                                        !.policy_asset_version = None,
                                        !.policy_enabled = FALSE]
          /\ pc' = "apply"
          /\ result' = result
       \/ /\ backend' = backend
          /\ context' = context
          /\ pc' = "done"
          /\ result' = fail_json("[remove_automated_policy] Error executing HTTP call")
    /\ UNCHANGED <<mod, params, observed, history>>

\* the policy `id` after the PATCH with the payload of the module
APPatch(list, id, p) ==
    [i \in 1..Len(list) |->
        IF list[i].id = id
        THEN [list[i] EXCEPT !.configurationData = p.configuration_data_path,
                             !.pointcutData = p.pointcut_data_path,
                             !.ruleOfApplication = APDefaultRule,
                             !.assetVersion = p.version]
        ELSE list[i]]

\* apply_edit_automated_policy, lines 261-306: read the files, then PATCH the
\* applied policy or POST a new one
AP_apply_edit ==
    /\ mod = "ap_api_mgr_automated_policy"
    /\ params.state = "present"
    /\ \/ pc = "apply"
       \/ /\ pc = "act"
          /\ ~(context.policy_id # None
                /\ context.policy_asset_version # params.version)
    /\ pc' = "done"
    /\ IF AP_config_unreadable(params)
       THEN /\ result' = fail_json("[read_policy_configuration_from_file] Error reading configuration data file")
            /\ UNCHANGED <<backend, calls>>
       ELSE IF context.policy_id # None
       THEN /\ calls' = Append(calls, [op |-> "PATCH", id |-> context.policy_id])
            /\ \/ /\ backend' = APPatch(backend, context.policy_id, params)
                  /\ result' = AP_exit_changed("Automated policy updated")
               \/ /\ backend' = backend
                  /\ result' = fail_json("[apply_edit_automated_policy] Error executing HTTP call")
       ELSE /\ calls' = Append(calls, [op |-> "POST", id |-> None])
            /\ \/ /\ backend' = Append(backend,
                        [assetId |-> params.name, id |-> "203",
                         assetVersion |-> params.version, disabled |-> FALSE,
                         configurationData |-> params.configuration_data_path,
                         pointcutData |-> params.pointcut_data_path,
                         ruleOfApplication |-> APDefaultRule])
                  /\ result' = AP_exit_changed("Automated policy created")
               \/ /\ backend' = backend
                  /\ result' = fail_json("[apply_edit_automated_policy] Error executing HTTP call")
    /\ UNCHANGED <<mod, params, observed, context, history>>

AP_remove_automated_policy ==
    /\ mod = "ap_api_mgr_automated_policy" /\ pc = "act"
    /\ params.state = "absent"
    /\ calls' = Append(calls, [op |-> "DELETE", id |-> context.policy_id])
    /\ \/ /\ backend' = APWithout(backend, context.policy_id)
          /\ context' = [context EXCEPT !.policy_id = None]
          /\ result' = AP_exit_changed("Automated policy removed")
       \/ /\ backend' = backend
          /\ context' = context
          /\ result' = fail_json("[remove_automated_policy] Error executing HTTP call")
    /\ pc' = "done"
    /\ UNCHANGED <<mod, params, observed, history>>

NextAP ==
    \/ AP_get_context
    \/ AP_remove_for_replace
    \/ AP_apply_edit
    \/ AP_remove_automated_policy
    \/ NextRun

SpecAP == InitAP /\ [][NextAP]_vars

(***************************************************************************)
(* anypoint/ap_exchange_asset.py                                           *)
(***************************************************************************)
AssetStates == {"present", "deprecated", "absent"}
AssetName == "My Asset"

\* module.params['maven']: <<>> is None (option not given)
AssetMavenOptions ==
    {<<>>, <<[sources |-> None]>>, <<[sources |-> "/tmp/app"]>>}

\* tasks that differ in what they declare about tags, description and icon
AssetParamsFields ==
    [name : {AssetName}, state : AssetStates, type : {"custom"},
     file_path : {None}, maven : {<<>>},
     tags : {<<>>, <<"t1", "t2">>, <<"t2", "t1">>},
     description : {None, "some text"},
     icon : {None, "logo.png", "new.svg"}, check_mode : BOOLEAN]

\* tasks that differ in how the asset is uploaded
AssetParamsUpload ==
    [name : {AssetName}, state : {"present", "deprecated"},
     type : {"oas", "example", "extension"},
     file_path : {None, "/tmp/asset.jar", "/tmp/asset.zip"},
     maven : AssetMavenOptions,
     tags : {<<>>}, description : {None}, icon : {None}, check_mode : {FALSE}]

AssetRecords ==
    [status : {"published", "deprecated"}, name : {AssetName},
     labels : {<<>>, <<"t1", "t2">>}, description : ExchangeDescriptions,
     files : ExchangeFiles]

\* Exchange holds the asset group_id/asset_id/asset_version (<<a>>) or not (<<>>)
AssetBackends == {<<>>} \cup {<<a>> : a \in AssetRecords}

\* ap_exchange_asset.analyze_asset, lines 286-297
Asset_must_update(p, resp_json) ==
    IF \/ p.tags # resp_json.labels
       \/ p.description # None /\ p.description # resp_json.description
    THEN TRUE
    ELSE IF p.icon # None
         THEN ~\E i \in 1..Len(resp_json.files) :
                  /\ resp_json.files[i].classifier = "icon"
                  /\ md5(p.icon) = resp_json.files[i].md5
         ELSE FALSE

Asset_analyze_asset(p, resp_json) ==
    [must_update |-> Asset_must_update(p, resp_json),
     deprecated |-> resp_json.status = "deprecated"]

\* get_context, lines 346-356
Asset_do_nothing(p, exists, must_update, deprecated) ==
    CASE p.state = "present" -> exists /\ must_update = FALSE /\ deprecated = FALSE
      [] p.state = "deprecated" -> exists /\ deprecated = TRUE
      [] p.state = "absent" -> ~exists

Asset_get_context_value(p, b) ==
    LET exists == b # <<>>
        analyzed == exists /\ p.state \in {"present", "deprecated"}
        res == IF analyzed THEN Asset_analyze_asset(p, b[1])
               ELSE [must_update |-> FALSE, deprecated |-> FALSE]
    IN [do_nothing |-> Asset_do_nothing(p, exists, res.must_update, res.deprecated),
        exists |-> exists,
        must_update |-> res.must_update,
        deprecated |-> res.deprecated]

\* run_module, lines 694-706: the message of the failed check, None if they pass
Asset_check_arguments(p) ==
    IF p.state = "present" /\ p.type \in {"example", "template"} /\ p.maven = <<>>
    THEN "asset type template or example requires a project directory to build it"
    ELSE IF /\ p.state = "present"
            /\ p.type \in {"oas", "wsdl", "connector", "extension", "policy"}
            /\ p.file_path = None
    THEN "asset type oas, wsdl, connector, extension or policy requires a file path to upload it"
    ELSE None

\* ap_exchange_asset.modify_exchange_asset: always the three calls
Asset_modify_calls == <<"set_asset_tags", "set_asset_description", "set_asset_icon">>

\* upload_exchange_asset: the upload command, set_asset_name after mvn
\* deploy:deploy-file, then modify_exchange_asset
Asset_upload_calls(p) ==
    <<"upload">>
    \o (IF p.type \in {"example", "template", "connector", "extension", "policy"}
           /\ ~(p.type \in {"example", "template"} /\ p.file_path = None)
        THEN <<"set_asset_name">> ELSE <<>>)
    \o Asset_modify_calls

\* slip: state=deprecated runs modify_exchange_asset once more after the upload
Asset_plan_ModifyAfterUpload(p, ctx) ==
    CASE p.state = "present" ->
            IF ~ctx.exists THEN Asset_upload_calls(p)
            ELSE (IF ctx.deprecated THEN <<"undeprecate">> ELSE <<>>)
                 \o (IF ctx.must_update THEN Asset_modify_calls ELSE <<>>)
      [] p.state = "deprecated" ->
            (IF ~ctx.exists THEN Asset_upload_calls(p) ELSE <<>>)
            \o (IF ctx.must_update \/ ~ctx.exists THEN Asset_modify_calls ELSE <<>>)
            \o <<"deprecate">>
      [] p.state = "absent" -> <<"delete_exchange_asset">>

\* run_module, lines 713-738: the calls of the run, in order
Asset_plan(p, ctx) ==
    CASE p.state = "present" ->
            IF ~ctx.exists THEN Asset_upload_calls(p)
            ELSE (IF ctx.deprecated THEN <<"undeprecate">> ELSE <<>>)
                 \o (IF ctx.must_update THEN Asset_modify_calls ELSE <<>>)
      [] p.state = "deprecated" ->
            (IF ~ctx.exists THEN Asset_upload_calls(p) ELSE <<>>)
            \o (IF ctx.must_update THEN Asset_modify_calls ELSE <<>>)
            \o <<"deprecate">>
      [] p.state = "absent" -> <<"delete_exchange_asset">>

InitAsset ==
    /\ mod = "ap_exchange_asset"
    /\ \/ params \in AssetParamsFields /\ backend \in AssetBackends
       \/ params \in AssetParamsUpload /\ backend \in {<<>>}
    /\ pc = "start"
    /\ observed = NotRead
    /\ context = NoContext
    /\ calls = <<>>
    /\ result = InitResult
    /\ history = <<>>

\* run_module, lines 672-711: check mode, argument checks, get_context
Asset_get_context ==
    /\ mod = "ap_exchange_asset" /\ pc = "start"
    /\ UNCHANGED <<mod, params, backend, calls, history>>
    /\ IF params.check_mode
       THEN /\ result' = exit_json(result)
            /\ pc' = "done"
            /\ UNCHANGED <<observed, context>>
       ELSE IF Asset_check_arguments(params) # None
       THEN /\ result' = fail_json(Asset_check_arguments(params))
            /\ pc' = "done"
            /\ UNCHANGED <<observed, context>>
       ELSE /\ observed' = <<backend>>
            /\ LET ctx == Asset_get_context_value(params, backend) IN
               /\ context' = [do_nothing |-> ctx.do_nothing, exists |-> ctx.exists,
                              must_update |-> ctx.must_update,
                              deprecated |-> ctx.deprecated,
                              pending |-> IF ctx.do_nothing THEN <<>>
                                          ELSE Asset_plan(params, ctx)]
               /\ IF ctx.do_nothing
                  THEN /\ result' = exit_json(result)
                       /\ pc' = "done"
                  ELSE /\ result' = result
                       /\ pc' = "act"

Asset_exit_changed(m) == exit_json([result EXCEPT !.changed = TRUE, !.msg = m])

\* the current call of the run is `op`
Asset_at(op) ==
    /\ mod = "ap_exchange_asset" /\ pc = "act"
    /\ context.pending # <<>>
    /\ Head(context.pending) = op

\* the call succeeded: go on with the next call, or exit with changed=True
Asset_done(m) ==
    /\ context' = [context EXCEPT !.pending = Tail(@)]
    /\ IF Tail(context.pending) = <<>>
       THEN /\ pc' = "done"
            /\ result' = Asset_exit_changed(m)
       ELSE /\ pc' = "act"
            /\ result' = result

Asset_fail(m) ==
    /\ pc' = "done"
    /\ result' = fail_json(m)
    /\ UNCHANGED <<backend, context>>

Asset_crash(m) ==
    /\ pc' = "done"
    /\ result' = crash(m)
    /\ UNCHANGED <<backend, context>>

\* upload_exchange_asset, lines 548-605: what stops the upload before any
\* command is run ("ok" if nothing does)
Asset_upload_precheck(p) ==
    IF p.type \in {"custom", "oas", "wsdl"} THEN "ok"
    ELSE IF p.type \in {"example", "template"} /\ p.file_path = None
    THEN IF p.maven = <<>> THEN "crash"
         ELSE IF p.maven[1].sources # None THEN "ok" ELSE "fail"
    ELSE IF p.file_path = None THEN "crash"
    ELSE IF p.file_path = "/tmp/asset.zip" /\ p.type = "connector" THEN "ok"
    ELSE IF p.file_path = "/tmp/asset.jar" /\ p.type # "connector" THEN "ok"
    ELSE "fail"

\* the asset Exchange holds after the upload
Asset_uploaded(p) ==
    [status |-> "published", name |-> p.name, labels |-> <<>>,
     description |-> "", files |-> <<[classifier |-> "raml", md5 |-> "0cc175b9"]>>]

\* upload_exchange_asset: 'exchange asset upload' or the mvn deploy
Asset_upload_exchange_asset ==
    /\ Asset_at("upload")
    /\ UNCHANGED <<mod, params, observed, history>>
    /\ IF Asset_upload_precheck(params) = "crash"
       THEN Asset_crash("TypeError") /\ calls' = calls
       ELSE IF Asset_upload_precheck(params) = "fail"
       THEN Asset_fail("upload_exchange_asset: nothing to upload") /\ calls' = calls
       ELSE /\ calls' = Append(calls, [op |-> "upload", id |-> None])
            /\ \/ backend' = <<Asset_uploaded(params)>> /\ Asset_done("Asset uploaded")
               \/ Asset_fail("[execute_anypoint_cli] upload failed")

Asset_set_asset_name ==
    /\ Asset_at("set_asset_name")
    /\ calls' = Append(calls, [op |-> "set_asset_name", id |-> params.name])
    /\ \/ /\ backend' = <<[backend[1] EXCEPT !.name = params.name]>>
          /\ Asset_done("Asset uploaded")
       \/ Asset_fail("[set_asset_name] failed")
    /\ UNCHANGED <<mod, params, observed, history>>

\* the message of the run when modify_exchange_asset is its last step
Asset_modify_msg == IF context.exists THEN "Asset modified" ELSE "Asset uploaded"

Asset_set_asset_tags ==
    /\ Asset_at("set_asset_tags")
    /\ calls' = Append(calls, [op |-> "set_asset_tags", id |-> params.name])
    /\ \/ /\ backend' = <<ExchangeApply(backend[1], "set_asset_tags", params.name,
                            params.description, params.icon, params.tags)>>
          /\ Asset_done(Asset_modify_msg)
       \/ Asset_fail("[set_asset_tags] failed")
    /\ UNCHANGED <<mod, params, observed, history>>

Asset_set_asset_description ==
    /\ Asset_at("set_asset_description")
    /\ calls' = Append(calls, [op |-> "set_asset_description", id |-> params.name])
    /\ \/ /\ backend' = <<ExchangeApply(backend[1], "set_asset_description", params.name,
                            params.description, params.icon, params.tags)>>
          /\ Asset_done(Asset_modify_msg)
       \/ Asset_fail("[set_asset_description] failed")
    /\ UNCHANGED <<mod, params, observed, history>>

Asset_set_asset_icon ==
    /\ Asset_at("set_asset_icon")
    /\ calls' = Append(calls, [op |-> "set_asset_icon", id |-> params.name])
    /\ \/ /\ backend' = <<ExchangeApply(backend[1], "set_asset_icon", params.name,
                            params.description, params.icon, params.tags)>>
          /\ Asset_done(Asset_modify_msg)
       \/ Asset_fail("[set_asset_icon] failed")
    /\ UNCHANGED <<mod, params, observed, history>>

\* run_module, lines 720-723
Asset_undeprecate ==
    /\ Asset_at("undeprecate")
    /\ calls' = Append(calls, [op |-> "undeprecate", id |-> params.name])
    /\ \/ /\ backend' = <<[backend[1] EXCEPT !.status = "published"]>>
          /\ Asset_done("Asset undeprecated")
       \/ Asset_fail("[execute_anypoint_cli] undeprecate failed")
    /\ UNCHANGED <<mod, params, observed, history>>

\* run_module, lines 733-736
Asset_deprecate ==
    /\ Asset_at("deprecate")
    /\ calls' = Append(calls, [op |-> "deprecate", id |-> params.name])
    /\ \/ /\ backend' = <<[backend[1] EXCEPT !.status = "deprecated"]>>
          /\ Asset_done("Asset deprecated")
       \/ Asset_fail("[execute_anypoint_cli] deprecate failed")
    /\ UNCHANGED <<mod, params, observed, history>>

Asset_delete_exchange_asset ==
    /\ Asset_at("delete_exchange_asset")
    /\ calls' = Append(calls, [op |-> "delete_exchange_asset", id |-> params.name])
    /\ \/ /\ backend' = <<>>
          /\ Asset_done("Asset deleted")
       \/ Asset_fail("[delete_exchange_asset] failed")
    /\ UNCHANGED <<mod, params, observed, history>>

NextAsset ==
    \/ Asset_get_context
    \/ Asset_upload_exchange_asset
    \/ Asset_set_asset_name
    \/ Asset_set_asset_tags
    \/ Asset_set_asset_description
    \/ Asset_set_asset_icon
    \/ Asset_undeprecate
    \/ Asset_deprecate
    \/ Asset_delete_exchange_asset
    \/ NextRun

SpecAsset == InitAsset /\ [][NextAsset]_vars

(***************************************************************************)
(* anypoint/ap_mq_destination.py                                           *)
(***************************************************************************)
MQStates == {"present", "absent"}
MQTarget == "myDestination"
MQOther == "otherQueue"

\* module.params['attributes']: <<>> is None (option not given);
\* exchange_queues has no default, so it is None unless the task gives it
MQAttributes ==
    {<<>>}
    \cup {<<[type |-> "queue", exchange_queues |-> <<>>, given |-> FALSE]>>}
    \cup {<<[type |-> "exchange", exchange_queues |-> q[1], given |-> q[2]]>> :
            q \in {<< <<>>, FALSE >>, << <<>>, TRUE >>, << <<"q1">>, TRUE >>,
                   << <<"q1", "q2">>, TRUE >>}}

MQParams ==
    [name : {MQTarget}, state : MQStates, attributes : MQAttributes,
     check_mode : BOOLEAN]

\* an item of the destinations list: id is its queueId or its exchangeId
MQItem(type, id) == [type |-> type, id |-> id]

MQDestinationLists ==
    {<<>>, <<MQItem("queue", MQOther)>>,
     <<MQItem("queue", MQTarget)>>, <<MQItem("exchange", MQTarget)>>,
     <<MQItem("queue", MQOther), MQItem("queue", MQTarget)>>,
     <<MQItem("queue", MQOther), MQItem("exchange", MQTarget)>>}

\* env: the declared environment exists in the business group;
\* bindings: the queues bound to the exchange MQTarget
MQBackends ==
    [env : {TRUE}, destinations : MQDestinationLists, bindings : {{}}]
    \cup [env : {FALSE}, destinations : {<<>>}, bindings : {{}}]

\* get_context, lines 250-258: the loop subscripts attributes for every item
MQ_get_context_raises(p, dest_list) == p.attributes = <<>> /\ dest_list # <<>>

MQFind(p, dest_list) ==
    LET match(i) == /\ p.attributes # <<>>
                    /\ dest_list[i].type = p.attributes[1].type
                    /\ dest_list[i].id = p.name
    IN IF \E i \in 1..Len(dest_list) : match(i)
       THEN dest_list[CHOOSE i \in 1..Len(dest_list) :
                match(i) /\ \A j \in 1..(i - 1) : ~match(j)].id
       ELSE None

MQ_do_nothing(p, destination_id) ==
    CASE p.state = "present" -> destination_id # None
      [] p.state = "absent" -> destination_id = None

InitMQ ==
    /\ mod = "ap_mq_destination"
    /\ params \in MQParams
    /\ backend \in MQBackends
    /\ pc = "start"
    /\ observed = NotRead
    /\ context = NoContext
    /\ calls = <<>>
    /\ result = InitResult
    /\ history = <<>>

\* run_module, lines 395-407, with get_environment_id and get_context
MQ_get_context ==
    /\ mod = "ap_mq_destination" /\ pc = "start"
    /\ UNCHANGED <<mod, params, backend, calls, history>>
    /\ IF params.check_mode
       THEN /\ result' = exit_json(result)
            /\ pc' = "done"
            /\ UNCHANGED <<observed, context>>
       ELSE IF ~backend.env
       THEN /\ result' = fail_json("Environment not found")
            /\ pc' = "done"
            /\ UNCHANGED <<observed, context>>
       ELSE /\ observed' = <<backend.destinations>>
            /\ IF MQ_get_context_raises(params, backend.destinations)
               THEN /\ result' = crash("TypeError: 'NoneType' object is not subscriptable")
                    /\ pc' = "done"
                    /\ context' = context
               ELSE LET id == MQFind(params, backend.destinations) IN
                    /\ context' = [do_nothing |-> MQ_do_nothing(params, id),
                                   destination_id |-> id, pending |-> <<>>]
                    /\ IF MQ_do_nothing(params, id)
                       THEN result' = exit_json(result) /\ pc' = "done"
                       ELSE result' = result /\ pc' = "act"

MQ_exit_changed(m) == exit_json([result EXCEPT !.changed = TRUE, !.msg = m])

\* create_mq_destination: the PUT of the queue or of the exchange; for an
\* exchange len(exchange_queues) follows the PUT
MQ_create_mq_destination ==
    /\ mod = "ap_mq_destination" /\ pc = "act"
    /\ params.state = "present"
    /\ UNCHANGED <<mod, params, observed, history>>
    /\ IF params.attributes = <<>>
       THEN /\ result' = crash("TypeError: 'NoneType' object is not subscriptable")
            /\ pc' = "done"
            /\ UNCHANGED <<backend, calls, context>>
       ELSE LET a == params.attributes[1] IN
            /\ calls' = Append(calls, [op |-> "create_mq_destination", id |-> params.name])
            /\ \/ /\ backend' = [backend EXCEPT !.destinations =
                                    Append(@, MQItem(a.type, params.name))]
                  /\ IF a.type = "exchange" /\ ~a.given
                     THEN /\ result' = crash("TypeError: object of type 'NoneType' has no len()")
                          /\ pc' = "done"
                          /\ context' = context
                     ELSE IF a.type = "exchange" /\ Len(a.exchange_queues) > 0
                     THEN /\ context' = [context EXCEPT !.pending = a.exchange_queues]
                          /\ pc' = "bind"
                          /\ result' = result
                     ELSE /\ context' = context
                          /\ pc' = "done"
                          /\ result' = MQ_exit_changed("MQ destination created.")
               \/ /\ result' = fail_json("create_mq_destination: HTTP error")
                  /\ pc' = "done"
                  /\ UNCHANGED <<backend, context>>

\* set_exchange_id_on_queues: one PUT for each queue of exchange_queues
MQ_set_exchange_id_on_queues ==
    /\ mod = "ap_mq_destination" /\ pc = "bind"
    /\ calls' = Append(calls, [op |-> "set_exchange_id_on_queues",
                               id |-> Head(context.pending)])
    /\ \/ /\ backend' = [backend EXCEPT !.bindings = @ \cup {Head(context.pending)}]
          /\ context' = [context EXCEPT !.pending = Tail(@)]
          /\ IF Tail(context.pending) = <<>>
             THEN pc' = "done" /\ result' = MQ_exit_changed("MQ destination created.")
             ELSE pc' = "bind" /\ result' = result
       \/ /\ result' = fail_json("set_exchange_id_on_queues: HTTP error")
          /\ pc' = "done"
          /\ UNCHANGED <<backend, context>>
    /\ UNCHANGED <<mod, params, observed, history>>

MQWithout(dest_list, type, id) ==
    SelectSeq(dest_list, LAMBDA d : ~(d.type = type /\ d.id = id))

\* delete_mq_destination: DELETE of the queue or of the exchange
MQ_delete_mq_destination ==
    /\ mod = "ap_mq_destination" /\ pc = "act"
    /\ params.state = "absent"
    /\ calls' = Append(calls, [op |-> "delete_mq_destination", id |-> params.name])
    /\ \/ /\ backend' = [backend EXCEPT
                !.destinations = MQWithout(@, params.attributes[1].type, params.name),
                !.bindings = IF params.attributes[1].type = "exchange" THEN {} ELSE @]
          /\ result' = MQ_exit_changed("MQ Destination deleted.")
       \/ /\ result' = fail_json("delete_mq_destination: HTTP error")
          /\ backend' = backend
    /\ pc' = "done"
    /\ UNCHANGED <<mod, params, observed, context, history>>

NextMQ ==
    \/ MQ_get_context
    \/ MQ_create_mq_destination
    \/ MQ_set_exchange_id_on_queues
    \/ MQ_delete_mq_destination
    \/ NextRun

SpecMQ == InitMQ /\ [][NextMQ]_vars

(***************************************************************************)
(* anypoint/ap_account_business_group.py                                   *)
(***************************************************************************)
BGStates == {"present", "absent"}
BGTarget == "My BG"
BGOther == "Other BG"
BGMasterId == "org-master"
BGSubId == "org-sub"

\* the entitlements a task declares and a business group holds; the module
\* compares ten of them one by one, two of them are kept here
BGEntitlements == [create_suborgs : BOOLEAN, vcores_sandbox : {0, 1}]

\* parent_id: None when the option is not given
BGParams ==
    [name : {BGTarget}, state : BGStates,
     parent_id : {None, "", BGMasterId, BGSubId, "org-unknown"},
     entitlements : BGEntitlements, check_mode : BOOLEAN]

\* readable is FALSE for an organization the caller gets HTTP 401 for
BGChild(id, name, ent, readable) ==
    [id |-> id, name |-> name, clientId |-> "client-of-" \o id,
     entitlements |-> ent, readable |-> readable]

BGDefaultEntitlements == [create_suborgs |-> FALSE, vcores_sandbox |-> 0]

BGChildLists ==
    {<<>>, <<BGChild("org-other", BGOther, BGDefaultEntitlements, TRUE)>>,
     <<BGChild("org-1", BGTarget, BGDefaultEntitlements, TRUE)>>,
     <<BGChild("org-1", BGTarget, [create_suborgs |-> TRUE, vcores_sandbox |-> 1], TRUE)>>,
     <<BGChild("org-1", BGTarget, BGDefaultEntitlements, FALSE)>>,
     <<BGChild("org-other", BGOther, BGDefaultEntitlements, TRUE),
       BGChild("org-1", BGTarget, BGDefaultEntitlements, TRUE)>>}

\* master_listed: 'account business-group list' shows the master organization;
\* children[id]: the sub organizations of organization id
BGBackends ==
    {[master_listed |-> m,
      children |-> [o \in {BGMasterId, BGSubId} |->
                        IF o = BGMasterId THEN l ELSE <<>>]] :
        m \in BOOLEAN, l \in BGChildLists}

\* the output of 'account business-group list'
BG_list(b) ==
    (IF b.master_listed THEN <<[Id |-> BGMasterId, Type |-> "Master"]>> ELSE <<>>)
    \o <<[Id |-> BGSubId, Type |-> "Business Group"]>>

\* slip: when no organization matches, the first listed one is taken as parent
BG_parent_id_FirstListed(p, list) ==
    LET match(i) == IF p.parent_id = None \/ p.parent_id = ""
                    THEN list[i].Type = "Master"
                    ELSE list[i].Id = p.parent_id
    IN IF \E i \in 1..Len(list) : match(i)
       THEN list[CHOOSE i \in 1..Len(list) :
                match(i) /\ \A j \in 1..(i - 1) : ~match(j)].Id
       ELSE list[1].Id

\* get_context, lines 259-267
BG_parent_id(p, list) ==
    LET match(i) == IF p.parent_id = None \/ p.parent_id = ""
                    THEN list[i].Type = "Master"
                    ELSE list[i].Id = p.parent_id
    IN IF \E i \in 1..Len(list) : match(i)
       THEN list[CHOOSE i \in 1..Len(list) :
                match(i) /\ \A j \in 1..(i - 1) : ~match(j)].Id
       ELSE None

\* get_organization(parent_id)['subOrganizationIds'], each child read in turn
BG_children(b, parent_id) == b.children[parent_id]

\* get_context, lines 270-279: the index of the child named as declared
BGFind(p, children) ==
    LET match(i) == children[i].readable /\ children[i].name = p.name IN
    IF \E i \in 1..Len(children) : match(i)
    THEN CHOOSE i \in 1..Len(children) : match(i) /\ \A j \in 1..(i - 1) : ~match(j)
    ELSE 0

get_business_group_need_update(p, bg) ==
    \/ bg.entitlements.create_suborgs # p.entitlements.create_suborgs
    \/ bg.entitlements.vcores_sandbox # p.entitlements.vcores_sandbox

BG_do_nothing(p, target_id, needs_update) ==
    CASE p.state = "present" -> target_id # None /\ needs_update = FALSE
      [] p.state = "absent" -> target_id = None

BG_get_context_value(p, b) ==
    LET parent_id == BG_parent_id(p, BG_list(b))
        children == IF parent_id # None THEN BG_children(b, parent_id) ELSE <<>>
        i == BGFind(p, children)
        target_id == IF i = 0 THEN None ELSE children[i].id
        needs_update == IF i = 0 THEN FALSE
                        ELSE get_business_group_need_update(p, children[i])
    IN [parent_id |-> parent_id, target_id |-> target_id,
        needs_update |-> needs_update,
        do_nothing |-> BG_do_nothing(p, target_id, needs_update)]

InitBG ==
    /\ mod = "ap_account_business_group"
    /\ params \in BGParams
    /\ backend \in BGBackends
    /\ pc = "start"
    /\ observed = NotRead
    /\ context = NoContext
    /\ calls = <<>>
    /\ result = InitResult
    /\ history = <<>>

\* run_module, lines 466-479
BG_get_context ==
    /\ mod = "ap_account_business_group" /\ pc = "start"
    /\ UNCHANGED <<mod, params, backend, calls, history>>
    /\ IF params.check_mode
       THEN /\ result' = exit_json(result)
            /\ pc' = "done"
            /\ UNCHANGED <<observed, context>>
       ELSE LET ctx == BG_get_context_value(params, backend) IN
            /\ observed' = <<backend>>
            /\ context' = ctx
            /\ IF ctx.do_nothing
               THEN result' = exit_json(result) /\ pc' = "done"
               ELSE IF ctx.parent_id = None
               THEN result' = fail_json("parent org not found") /\ pc' = "done"
               ELSE result' = result /\ pc' = "act"

BG_exit_changed(m) == exit_json([result EXCEPT !.changed = TRUE, !.msg = m])

BG_call(op, id, after, m) ==
    /\ calls' = Append(calls, [op |-> op, id |-> id])
    /\ \/ backend' = after /\ result' = BG_exit_changed(m)
       \/ backend' = backend /\ result' = fail_json(op \o ": HTTP error")
    /\ pc' = "done"
    /\ UNCHANGED <<mod, params, observed, context, history>>

\* create_business_group: POST of the new organization under the parent
BG_create_business_group ==
    /\ mod = "ap_account_business_group" /\ pc = "act"
    /\ params.state = "present" /\ context.needs_update = FALSE
    /\ BG_call("create_business_group", params.name,
               [backend EXCEPT !.children[context.parent_id] =
                    Append(@, BGChild("org-new", params.name, params.entitlements, TRUE))],
               "Business Group created")

BGPut(children, id, p) ==
    [i \in 1..Len(children) |->
        IF children[i].id = id
        THEN [children[i] EXCEPT !.name = p.name, !.entitlements = p.entitlements]
        ELSE children[i]]

\* update_business_group: PUT of the name and the entitlements
BG_update_business_group ==
    /\ mod = "ap_account_business_group" /\ pc = "act"
    /\ params.state = "present" /\ context.needs_update = TRUE
    /\ BG_call("update_business_group", context.target_id,
               [backend EXCEPT !.children[context.parent_id] =
                    BGPut(@, context.target_id, params)],
               "Business Group updated")

\* delete_business_group: DELETE of the organization
BG_delete_business_group ==
    /\ mod = "ap_account_business_group" /\ pc = "act"
    /\ params.state = "absent"
    /\ BG_call("delete_business_group", context.target_id,
               [backend EXCEPT !.children[context.parent_id] =
                    SelectSeq(@, LAMBDA c : c.id # context.target_id)],
               "Business group deleted")

NextBG ==
    \/ BG_get_context
    \/ BG_create_business_group
    \/ BG_update_business_group
    \/ BG_delete_business_group
    \/ NextRun

SpecBG == InitBG /\ [][NextBG]_vars

(***************************************************************************)
(* mulesoft/ap_account_business_group.py                                   *)
(***************************************************************************)
MBGParams == [name : {BGTarget}, state : BGStates, check_mode : BOOLEAN]

MBGSubOrg(id, name) == [id |-> id, name |-> name, clientId |-> "client-of-" \o id]

\* master_listed: 'account business-group list' shows an organization of
\* type Master; subOrganizations: the hierarchy below the master
MBGBackends ==
    [master_listed : BOOLEAN,
     subOrganizations : {<<>>, <<MBGSubOrg("org-other", BGOther)>>,
                         <<MBGSubOrg("org-1", BGTarget)>>,
                         <<MBGSubOrg("org-other", BGOther), MBGSubOrg("org-1", BGTarget)>>}]

\* do_no_action, lines 201-204
MBG_master_id(b) == IF b.master_listed THEN BGMasterId ELSE None

\* do_no_action, lines 224-230
MBGFind(p, subs) ==
    IF \E i \in 1..Len(subs) : subs[i].name = p.name
    THEN subs[CHOOSE i \in 1..Len(subs) :
            /\ subs[i].name = p.name
            /\ \A j \in 1..(i - 1) : subs[j].name # p.name].id
    ELSE None

InitMBG ==
    /\ mod = "mulesoft.ap_account_business_group"
    /\ params \in MBGParams
    /\ backend \in MBGBackends
    /\ pc = "start"
    /\ observed = NotRead
    /\ context = NoContext
    /\ calls = <<>>
    /\ result = InitResult
    /\ history = <<>>

\* run_module, lines 369-394, with do_no_action: the hierarchy URL is built
\* by concatenating master_id, which raises when no master was listed
MBG_do_no_action ==
    /\ mod = "mulesoft.ap_account_business_group" /\ pc = "start"
    /\ UNCHANGED <<mod, params, backend, calls, history>>
    /\ IF params.check_mode
       THEN /\ result' = exit_json(result)
            /\ pc' = "done"
            /\ UNCHANGED <<observed, context>>
       ELSE IF MBG_master_id(backend) = None
       THEN /\ observed' = <<[master_id |-> None, subOrganizations |-> <<>>]>>
            /\ result' = crash("TypeError: must be str, not NoneType")
            /\ pc' = "done"
            /\ context' = context
       ELSE LET id == MBGFind(params, backend.subOrganizations) IN
            /\ observed' = <<[master_id |-> MBG_master_id(backend),
                              subOrganizations |-> backend.subOrganizations]>>
            /\ context' = [do_nothing |-> IF params.state = "present"
                                          THEN id # None ELSE id = None,
                           master_id |-> MBG_master_id(backend),
                           target_id |-> id]
            /\ IF context'.do_nothing
               THEN result' = exit_json(result) /\ pc' = "done"
               ELSE result' = result /\ pc' = "act"

\* create_business_group: POST; an HTTP error ends the run with exit_json(msg=...)
MBG_create_business_group ==
    /\ mod = "mulesoft.ap_account_business_group" /\ pc = "act"
    /\ params.state = "present"
    /\ calls' = Append(calls, [op |-> "create_business_group", id |-> params.name])
    /\ \/ /\ backend' = [backend EXCEPT !.subOrganizations =
                            Append(@, MBGSubOrg("org-new", params.name))]
          /\ result' = exit_json([result EXCEPT !.changed = TRUE,
                                                !.msg = "Business Group created"])
       \/ /\ backend' = backend
          /\ result' = exit_json([result EXCEPT !.changed = FALSE,
                                                !.msg = "HTTP Error"])
    /\ pc' = "done"
    /\ UNCHANGED <<mod, params, observed, context, history>>

\* delete_business_group: DELETE; an HTTP error ends the run with fail_json
MBG_delete_business_group ==
    /\ mod = "mulesoft.ap_account_business_group" /\ pc = "act"
    /\ params.state = "absent"
    /\ calls' = Append(calls, [op |-> "delete_business_group", id |-> context.target_id])
    /\ \/ /\ backend' = [backend EXCEPT !.subOrganizations =
                            SelectSeq(@, LAMBDA o : o.id # context.target_id)]
          /\ result' = exit_json([result EXCEPT !.changed = TRUE,
                                                !.msg = "Business group deleted"])
       \/ /\ backend' = backend
          /\ result' = fail_json("HTTP Error")
    /\ pc' = "done"
    /\ UNCHANGED <<mod, params, observed, context, history>>

NextMBG ==
    \/ MBG_do_no_action
    \/ MBG_create_business_group
    \/ MBG_delete_business_group
    \/ NextRun

SpecMBG == InitMBG /\ [][NextMBG]_vars

(***************************************************************************)
(* mulesoft/ap_api_mgr_api_contract.py                                     *)
(***************************************************************************)
ContractStates == {"present", "revoked", "absent"}
ContractApplication == "245525"

ContractParams ==
    [name : {"15464957"}, application_id : {ContractApplication},
     state : ContractStates, check_mode : BOOLEAN]

ContractRecord(id, app, status) == [id |-> id, applicationId |-> app, status |-> status]

ContractOtherRecord == ContractRecord("c-7", "999", "APPROVED")

ContractLists ==
    {<<>>, <<ContractOtherRecord>>}
    \cup {<<ContractRecord("c-1", ContractApplication, st)>> :
            st \in {"APPROVED", "REVOKED", "PENDING"}}
    \cup {<<ContractOtherRecord, ContractRecord("c-1", ContractApplication, st)>> :
            st \in {"APPROVED", "REVOKED", "PENDING"}}

\* env: the declared environment exists; contracts: the contracts of the API
ContractBackends ==
    [env : {TRUE}, contracts : ContractLists]
    \cup [env : {FALSE}, contracts : {<<>>}]

\* get_context, lines 206-210: index of the first contract of the application
ContractFind(p, list) ==
    IF \E i \in 1..Len(list) : list[i].applicationId = p.application_id
    THEN CHOOSE i \in 1..Len(list) :
            /\ list[i].applicationId = p.application_id
            /\ \A j \in 1..(i - 1) : list[j].applicationId # p.application_id
    ELSE 0

Contract_do_nothing(p, contract_id, contract_status) ==
    CASE p.state = "present" -> contract_id # None /\ contract_status = "APPROVED"
      [] p.state = "revoked" -> contract_id = None \/ contract_status = "REVOKED"
      [] p.state = "absent" -> contract_id = None

Contract_get_context_value(p, list) ==
    LET i == ContractFind(p, list)
        id == IF i = 0 THEN None ELSE list[i].id
        st == IF i = 0 THEN None ELSE list[i].status
    IN [do_nothing |-> Contract_do_nothing(p, id, st),
        contract_id |-> id, contract_status |-> st]

InitContract ==
    /\ mod = "ap_api_mgr_api_contract"
    /\ params \in ContractParams
    /\ backend \in ContractBackends
    /\ pc = "start"
    /\ observed = NotRead
    /\ context = NoContext
    /\ calls = <<>>
    /\ result = InitResult
    /\ history = <<>>

\* slip: the run goes on in check mode
Contract_check_mode_exit_Never(p) == FALSE

\* run_module, lines 343-345: the check-mode exit comes before any call
Contract_check_mode_exit(p) == p.check_mode

\* run_module, lines 344-357
Contract_get_context ==
    /\ mod = "ap_api_mgr_api_contract" /\ pc = "start"
    /\ UNCHANGED <<mod, params, backend, calls, history>>
    /\ IF Contract_check_mode_exit(params)
       THEN /\ result' = exit_json(result)
            /\ pc' = "done"
            /\ UNCHANGED <<observed, context>>
       ELSE IF ~backend.env
       THEN /\ result' = fail_json("Environment not found")
            /\ pc' = "done"
            /\ UNCHANGED <<observed, context>>
       ELSE LET ctx == Contract_get_context_value(params, backend.contracts) IN
            /\ observed' = <<backend.contracts>>
            /\ context' = ctx
            /\ IF ctx.do_nothing
               THEN result' = exit_json(result) /\ pc' = "done"
               ELSE result' = result /\ pc' = "act"

Contract_exit_changed(m) == exit_json([result EXCEPT !.changed = TRUE, !.msg = m])

ContractSetStatus(list, id, status) ==
    [i \in 1..Len(list) |->
        IF list[i].id = id THEN [list[i] EXCEPT !.status = status] ELSE list[i]]

Contract_http_error(op) ==
    /\ result' = fail_json(op \o ": HTTP error")
    /\ pc' = "done"
    /\ backend' = backend

\* create_or_approve_contract: restore of a revoked contract (whose result
\* dict has no 'id' key: output['id'] raises), POST of a new one otherwise
Contract_create_or_approve_contract ==
    /\ mod = "ap_api_mgr_api_contract" /\ pc = "act"
    /\ params.state = "present"
    /\ IF context.contract_id # None /\ context.contract_status = "REVOKED"
       THEN /\ calls' = Append(calls, [op |-> "restore", id |-> context.contract_id])
            /\ \/ /\ backend' = [backend EXCEPT !.contracts =
                                    ContractSetStatus(@, context.contract_id, "APPROVED")]
                  /\ result' = crash("KeyError: 'id'")
                  /\ pc' = "done"
               \/ Contract_http_error("restore")
       ELSE /\ calls' = Append(calls, [op |-> "create", id |-> params.application_id])
            /\ \/ /\ backend' = [backend EXCEPT !.contracts =
                        Append(@, ContractRecord("c-new", params.application_id, "APPROVED"))]
                  /\ result' = Contract_exit_changed("API Contract approved.")
                  /\ pc' = "done"
               \/ Contract_http_error("create")
    /\ UNCHANGED <<mod, params, observed, context, history>>

\* slip: delete_contract never revokes
Contract_must_revoke_Never(ctx) == FALSE

\* delete_contract, line 306: I can only delete revoked contracts
Contract_must_revoke(ctx) == ctx.contract_status # "REVOKED"

\* revoke_contract: as the action of state=revoked, and as the first step of
\* delete_contract
Contract_revoke_contract ==
    /\ mod = "ap_api_mgr_api_contract" /\ pc = "act"
    /\ \/ params.state = "revoked"
       \/ params.state = "absent" /\ Contract_must_revoke(context)
    /\ calls' = Append(calls, [op |-> "revoke", id |-> context.contract_id])
    /\ \/ /\ backend' = [backend EXCEPT !.contracts =
                            ContractSetStatus(@, context.contract_id, "REVOKED")]
          /\ IF params.state = "revoked"
             THEN result' = Contract_exit_changed("API Contract revoked.") /\ pc' = "done"
             ELSE result' = result /\ pc' = "delete"
       \/ Contract_http_error("revoke")
    /\ UNCHANGED <<mod, params, observed, context, history>>

\* delete_contract, lines 310-313: the DELETE
Contract_delete_contract ==
    /\ mod = "ap_api_mgr_api_contract"
    /\ params.state = "absent"
    /\ \/ pc = "delete"
       \/ pc = "act" /\ ~Contract_must_revoke(context)
    /\ calls' = Append(calls, [op |-> "delete", id |-> context.contract_id])
    /\ \/ /\ backend' = [backend EXCEPT !.contracts =
                            SelectSeq(@, LAMBDA c : c.id # context.contract_id)]
          /\ result' = Contract_exit_changed("API Contract deleted.")
          /\ pc' = "done"
       \/ Contract_http_error("delete")
    /\ UNCHANGED <<mod, params, observed, context, history>>

NextContract ==
    \/ Contract_get_context
    \/ Contract_create_or_approve_contract
    \/ Contract_revoke_contract
    \/ Contract_delete_contract
    \/ NextRun

SpecContract == InitContract /\ [][NextContract]_vars

(***************************************************************************)
(* mulesoft/ap_account_environment.py                                      *)
(***************************************************************************)
MEnvTarget == "Development"

MEnvParams ==
    [name : {MEnvTarget}, state : {"present", "absent"},
     type : {"design", "sandbox", "production"}, check_mode : BOOLEAN]

\* the environments of the organization, as 'account environment list' shows them
MEnvBackends ==
    {<<>>, <<[Name |-> "Production", Type |-> "production"]>>}
    \cup {<<[Name |-> MEnvTarget, Type |-> t]>> : t \in {"sandbox", "production"}}
    \cup {<<[Name |-> "Production", Type |-> "production"],
            [Name |-> MEnvTarget, Type |-> "sandbox"]>>}

\* do_no_action, lines 121-132
MEnv_do_no_action_value(p, list) ==
    LET environment_exists == \E i \in 1..Len(list) : list[i].Name = p.name IN
    CASE p.state = "absent" -> ~environment_exists
      [] p.state = "present" -> environment_exists

InitMEnv ==
    /\ mod = "mulesoft.ap_account_environment"
    /\ params \in MEnvParams
    /\ backend \in MEnvBackends
    /\ pc = "start"
    /\ observed = NotRead
    /\ context = NoContext
    /\ calls = <<>>
    /\ result = InitResult
    /\ history = <<>>

\* run_module, lines 161-166
MEnv_do_no_action ==
    /\ mod = "mulesoft.ap_account_environment" /\ pc = "start"
    /\ UNCHANGED <<mod, params, backend, calls, history>>
    /\ IF params.check_mode
       THEN /\ result' = exit_json(result)
            /\ pc' = "done"
            /\ UNCHANGED <<observed, context>>
       ELSE /\ observed' = <<backend>>
            /\ context' = [do_nothing |-> MEnv_do_no_action_value(params, backend)]
            /\ IF MEnv_do_no_action_value(params, backend)
               THEN result' = exit_json(result) /\ pc' = "done"
               ELSE result' = result /\ pc' = "act"

\* run_module, lines 168-189: the create or delete command; a non-zero exit
\* code ends the run with exit_json(msg=output[1])
MEnv_run_command ==
    /\ mod = "mulesoft.ap_account_environment" /\ pc = "act"
    /\ calls' = Append(calls, [op |-> IF params.state = "present" THEN "create"
                                      ELSE "delete", id |-> params.name])
    /\ \/ /\ backend' = IF params.state = "present"
                        THEN Append(backend, [Name |-> params.name, Type |-> params.type])
                        ELSE SelectSeq(backend, LAMBDA e : e.Name # params.name)
          /\ result' = exit_json([result EXCEPT !.changed = TRUE,
                                                !.msg = "command output"])
       \/ /\ backend' = backend
          /\ result' = exit_json([result EXCEPT !.changed = FALSE,
                                                !.msg = "command error"])
    /\ pc' = "done"
    /\ UNCHANGED <<mod, params, observed, context, history>>

NextMEnv ==
    \/ MEnv_do_no_action
    \/ MEnv_run_command
    \/ NextRun

SpecMEnv == InitMEnv /\ [][NextMEnv]_vars

(***************************************************************************)
(* anypoint/ap_exchange_asset_page.py, two runs in parallel                *)
(*                                                                         *)
(* Two tasks for two pages of the same asset run at the same time on the   *)
(* same host.  params, pc, observed, context, calls and result hold one    *)
(* value for each run; backend holds the pages of the asset and /tmp.      *)
(***************************************************************************)
PageRuns == {1, 2}

\* the page each run declares
PageName(r) == IF r = 1 THEN "home" ELSE "faq"

\* the markdown files: what module.md5(md_path) returns, which is also what
\* stands for the content of the file
PageFileMd5(md_path) ==
    CASE md_path = "docs/home.md" -> "5d41402a"
      [] md_path = "docs/faq.md" -> "5d41402a"
      [] md_path = "docs/faq2.md" -> "7d793037"

PageParams ==
    {[r \in PageRuns |->
        [name |-> PageName(r), state |-> st[r], md_path |-> md[r], check_mode |-> FALSE]] :
        st \in [PageRuns -> {"present", "absent"}],
        md \in {[r \in PageRuns |-> IF r = 1 THEN "docs/home.md" ELSE m] :
                    m \in {"docs/faq.md", "docs/faq2.md"}}}

\* the content of a page of the asset: None when the page does not exist
PageContents == {None, "5d41402a", "7d793037"}

\* dirs: the directories of /tmp; files: <<directory, file name>>
PageBackends ==
    [pages : [{PageName(r) : r \in PageRuns} -> PageContents],
     dirs : {{}}, files : {{}}]

\* page_content_must_change, line 196
Page_tmp_dir(p) == "/tmp/" \o PageFileMd5(p.md_path)

InitPagePar ==
    /\ mod = "ap_exchange_asset_page"
    /\ params \in PageParams
    /\ backend \in PageBackends
    /\ pc = [r \in PageRuns |-> "start"]
    /\ observed = [r \in PageRuns |-> NotRead]
    /\ context = [r \in PageRuns |-> NoContext]
    /\ calls = [r \in PageRuns |-> <<>>]
    /\ result = [r \in PageRuns |-> InitResult]
    /\ history = <<>>

\* run r goes to position `to` with result `res`
Page_step(r, to, res) ==
    /\ pc' = [pc EXCEPT ![r] = to]
    /\ result' = [result EXCEPT ![r] = res]

\* get_context, lines 235-250: the list of the pages
Page_get_context(r) ==
    /\ mod = "ap_exchange_asset_page" /\ pc[r] = "start"
    /\ observed' = [observed EXCEPT ![r] = <<backend.pages>>]
    /\ LET page_exists == backend.pages[params[r].name] # None IN
       /\ context' = [context EXCEPT ![r] =
                        [do_nothing |-> params[r].state = "absent" /\ ~page_exists,
                         page_exists |-> page_exists]]
       /\ IF params[r].state = "present"
          THEN IF page_exists
               THEN Page_step(r, "mkdir", result[r])
               ELSE Page_step(r, "act", result[r])
          ELSE IF ~page_exists
               THEN Page_step(r, "done", exit_json(result[r]))
               ELSE Page_step(r, "act", result[r])
    /\ UNCHANGED <<mod, params, backend, calls, history>>

\* page_content_must_change, lines 200-204: os.mkdir(tmp_dir)
Page_mkdir(r) ==
    /\ mod = "ap_exchange_asset_page" /\ pc[r] = "mkdir"
    /\ IF Page_tmp_dir(params[r]) \in backend.dirs
       THEN /\ Page_step(r, "done",
                    fail_json("[page_content_must_change] Creation of the directory failed"))
            /\ backend' = backend
       ELSE /\ Page_step(r, "download", result[r])
            /\ backend' = [backend EXCEPT !.dirs = @ \cup {Page_tmp_dir(params[r])}]
    /\ UNCHANGED <<mod, params, observed, context, calls, history>>

\* page_content_must_change, lines 206-211: the page is downloaded and read
Page_download(r) ==
    /\ mod = "ap_exchange_asset_page" /\ pc[r] = "download"
    /\ backend' = [backend EXCEPT !.files =
                        @ \cup {<<Page_tmp_dir(params[r]), params[r].name>>}]
    /\ context' = [context EXCEPT ![r] =
                        [@ EXCEPT !.do_nothing =
                            backend.pages[params[r].name] = PageFileMd5(params[r].md_path)]]
    /\ Page_step(r, "cleanup", result[r])
    /\ UNCHANGED <<mod, params, observed, calls, history>>

\* page_content_must_change, lines 213-225: the file and the directory are
\* removed, os.rmdir raises when the directory is not empty
Page_cleanup(r) ==
    /\ mod = "ap_exchange_asset_page" /\ pc[r] = "cleanup"
    /\ LET dir == Page_tmp_dir(params[r])
           rest == backend.files \ {<<dir, params[r].name>>}
       IN IF \E f \in rest : f[1] = dir
          THEN /\ backend' = [backend EXCEPT !.files = rest]
               /\ Page_step(r, "done",
                    fail_json("[page_content_must_change] Deletion of the directory failed"))
          ELSE /\ backend' = [backend EXCEPT !.files = rest, !.dirs = @ \ {dir}]
               /\ IF context[r].do_nothing
                  THEN Page_step(r, "done", exit_json(result[r]))
                  ELSE Page_step(r, "act", result[r])
    /\ UNCHANGED <<mod, params, observed, context, calls, history>>

\* run_module, lines 308-324: the upload or the delete command
Page_execute_anypoint_command(r) ==
    /\ mod = "ap_exchange_asset_page" /\ pc[r] = "act"
    /\ calls' = [calls EXCEPT ![r] =
                    Append(@, [op |-> IF params[r].state = "present" THEN "upload"
                                      ELSE "delete", id |-> params[r].name])]
    /\ \/ /\ backend' = [backend EXCEPT !.pages[params[r].name] =
                            IF params[r].state = "present"
                            THEN PageFileMd5(params[r].md_path) ELSE None]
          /\ Page_step(r, "done", exit_json([result[r] EXCEPT !.changed = TRUE,
                                                              !.msg = "command output"]))
       \/ /\ backend' = backend
          /\ Page_step(r, "done", fail_json("[execute_anypoint_command] error"))
    /\ UNCHANGED <<mod, params, observed, context, history>>

NextPagePar ==
    \E r \in PageRuns :
        \/ Page_get_context(r)
        \/ Page_mkdir(r)
        \/ Page_download(r)
        \/ Page_cleanup(r)
        \/ Page_execute_anypoint_command(r)

SpecPagePar == InitPagePar /\ [][NextPagePar]_vars

(***************************************************************************)
(* anypoint/ap_runtime_mgr_cloudhub_application.py                         *)
(***************************************************************************)
CloudStates == {"present", "started", "undeployed", "absent"}
CloudTarget == "customer-sapi"

\* module.params['api_manager']: <<>> is None (option not given)
CloudApiManagers ==
    {<<>>,
     <<[api_id |-> "15", env_client_id |-> None, env_client_secret |-> None]>>,
     <<[api_id |-> "15", env_client_id |-> "cid", env_client_secret |-> "sec"]>>}

\* run_module, lines 521-548: monitoring_enabled is a bool with default
\* False, so it is never None; properties and properties_file have no default
CloudParams ==
    [name : {CloudTarget}, state : CloudStates,
     file : {None, "/tmp/customer-sapi.jar"}, runtime : {None, "4.1.5"},
     workers : {1}, worker_size : {"0.1"}, region : {"us-east-1"},
     persistent_queues : {FALSE}, persistent_queues_encripted : {FALSE},
     static_ips_enabled : {FALSE}, auto_restart : {FALSE},
     properties : {None, <<"db.user=oliver">>},
     properties_file : {None, "/tmp/app.properties"},
     api_manager : CloudApiManagers, visualizer : {<<>>},
     monitoring_enabled : BOOLEAN, check_mode : BOOLEAN]

\* what describe-json shows of an application; weight is the JSON number of
\* workers.type.weight in tenths of a vCore
CloudApps ==
    [fullDomain : {"customer-sapi.cloudhub.io"},
     status : {"STARTED", "DEPLOYING", "UNDEPLOYED", "DELETED"},
     region : {"us-east-1", "us-west-1"}, muleVersion : {"4.1.5", "4.2.0"},
     persistentQueues : BOOLEAN, persistentQueuesEncrypted : {FALSE},
     staticIPsEnabled : {FALSE}, monitoringAutoRestart : {FALSE},
     amount : {1, 2}, weight : {1, 2}]

\* Runtime Manager holds the application with the name (<<a>>) or not (<<>>)
CloudBackends == {<<>>} \cup {<<a>> : a \in CloudApps}

\* str(cloudhub_app.get('workers')['type']['weight'])
CloudStrWeight(w) == CASE w = 1 -> "0.1" [] w = 2 -> "0.2"

\* slip: every existing application is taken to need an update
application_needs_update_Always(p, app) == TRUE

\* application_needs_update
application_needs_update(p, app) ==
    \/ app.region # p.region
    \/ app.muleVersion # p.runtime
    \/ app.persistentQueues # p.persistent_queues
    \/ app.persistentQueuesEncrypted # p.persistent_queues_encripted
    \/ app.staticIPsEnabled # p.static_ips_enabled
    \/ app.monitoringAutoRestart # p.auto_restart
    \/ app.amount # p.workers
    \/ CloudStrWeight(app.weight) # p.worker_size

\* run_module, lines 576-591: the message of the failed check, None when the
\* arguments pass
Cloud_check_arguments(p) ==
    IF p.state # "present" THEN None
    ELSE IF p.file = None THEN "present state needs 'file' option"
    ELSE IF p.runtime = None THEN "present state needs 'runtime' option"
    ELSE IF /\ p.properties_file # None
            /\ \/ p.properties # None
               \/ p.api_manager # <<>>
               \/ p.visualizer # <<>>
               \/ p.monitoring_enabled \in BOOLEAN
    THEN "you can't use 'properties_file' in conjunction with 'properties', 'api_manager', 'visualizer_layer' or 'monitoring_enabled'"
    ELSE IF /\ p.api_manager # <<>>
            /\ p.api_manager[1].api_id # None
            /\ \/ p.api_manager[1].env_client_id = None
               \/ p.api_manager[1].env_client_secret = None
    THEN "to register the app with api manager the hre parameters 'api_id', 'env_client_id' and 'env_client_secret' must be present"
    ELSE None

\* get_context: app is <<>> when describe-json found no application
Cloud_get_context_value(p, app) ==
    LET app_url == IF app = <<>> THEN None ELSE app[1].fullDomain
        app_status == IF app = <<>> THEN None ELSE app[1].status
        must_update == /\ p.state = "present" /\ app # <<>>
                       /\ application_needs_update(p, app[1])
    IN [do_nothing |->
            CASE p.state = "present" -> app # <<>> /\ ~must_update
              [] p.state = "started" -> app_status \in {"STARTED", "DEPLOYING"}
              [] p.state = "undeployed" -> app_status = "UNDEPLOYED"
              [] p.state = "absent" -> app = <<>> \/ app_status = "DELETED",
        app_url |-> app_url, app_status |-> app_status,
        must_update |-> must_update]

\* get_context, lines 359-370: started and undeployed need the application
Cloud_requires_present_OnlyStarted(p, app) == p.state = "started" /\ app = <<>>

Cloud_requires_present(p, app) == p.state \in {"started", "undeployed"} /\ app = <<>>

InitCloud ==
    /\ mod = "ap_runtime_mgr_cloudhub_application"
    /\ params \in CloudParams
    /\ backend \in CloudBackends
    /\ pc = "start"
    /\ observed = NotRead
    /\ context = NoContext
    /\ calls = <<>>
    /\ result = InitResult
    /\ history = <<>>

\* run_module, lines 575-606: argument checks, check mode, get_context
Cloud_get_context ==
    /\ mod = "ap_runtime_mgr_cloudhub_application" /\ pc = "start"
    /\ UNCHANGED <<mod, params, backend, calls, history>>
    /\ IF Cloud_check_arguments(params) # None
       THEN /\ result' = fail_json(Cloud_check_arguments(params))
            /\ pc' = "done"
            /\ UNCHANGED <<observed, context>>
       ELSE IF params.check_mode
       THEN /\ result' = exit_json(result)
            /\ pc' = "done"
            /\ UNCHANGED <<observed, context>>
       ELSE /\ observed' = <<backend>>
            /\ context' = Cloud_get_context_value(params, backend)
            /\ IF Cloud_requires_present(params, backend)
               THEN /\ result' = fail_json("Error: \"" \o params.state
                                            \o "\" state requires a present object")
                    /\ pc' = "done"
               ELSE IF context'.do_nothing
               THEN result' = exit_json(result) /\ pc' = "done"
               ELSE result' = result /\ pc' = "act"

\* run_module, lines 619-624
Cloud_exit_changed(m) == exit_json([result EXCEPT !.changed = TRUE, !.msg = m])

\* execute_anypoint_cli: a non-zero exit code ends the run with fail_json
Cloud_fail == fail_json("anypoint-cli error")

\* the application after a successful deploy or modify with parameters p
CloudDeployed(p) ==
    [fullDomain |-> "customer-sapi.cloudhub.io", status |-> "DEPLOYING",
     region |-> p.region, muleVersion |-> p.runtime,
     persistentQueues |-> p.persistent_queues,
     persistentQueuesEncrypted |-> p.persistent_queues_encripted,
     staticIPsEnabled |-> p.static_ips_enabled,
     monitoringAutoRestart |-> p.auto_restart,
     amount |-> p.workers, weight |-> 1]

\* create_or_update_cloudhub_application: 'deploy' when must_update is False,
\* 'modify' otherwise; line 408 iterates module.params['properties'], which
\* raises TypeError when the option was not given
Cloud_create_or_update_cloudhub_application ==
    /\ mod = "ap_runtime_mgr_cloudhub_application" /\ pc = "act"
    /\ params.state = "present"
    /\ pc' = "done"
    /\ IF params.properties_file = None /\ params.properties = None
       THEN /\ result' = crash("TypeError: 'NoneType' object is not iterable")
            /\ UNCHANGED <<backend, calls>>
       ELSE /\ calls' = Append(calls, [op |-> IF context.must_update THEN "modify"
                                              ELSE "deploy", id |-> params.name])
            /\ \/ /\ backend' = <<CloudDeployed(params)>>
                  /\ result' = Cloud_exit_changed("application is being deployed")
               \/ /\ backend' = backend
                  /\ result' = Cloud_fail
    /\ UNCHANGED <<mod, params, observed, context, history>>

\* start_cloudhub_application
Cloud_start_cloudhub_application ==
    /\ mod = "ap_runtime_mgr_cloudhub_application" /\ pc = "act"
    /\ params.state = "started"
    /\ pc' = "done"
    /\ calls' = Append(calls, [op |-> "start", id |-> params.name])
    /\ \/ /\ backend # <<>>
          /\ backend' = <<[backend[1] EXCEPT !.status = "STARTED"]>>
          /\ result' = Cloud_exit_changed("command output")
       \/ /\ backend' = backend
          /\ result' = Cloud_fail
    /\ UNCHANGED <<mod, params, observed, context, history>>

\* undeploy_cloudhub_application
Cloud_undeploy_cloudhub_application ==
    /\ mod = "ap_runtime_mgr_cloudhub_application" /\ pc = "act"
    /\ params.state = "undeployed"
    /\ pc' = "done"
    /\ calls' = Append(calls, [op |-> "stop", id |-> params.name])
    /\ \/ /\ backend # <<>>
          /\ backend' = <<[backend[1] EXCEPT !.status = "UNDEPLOYED"]>>
          /\ result' = Cloud_exit_changed("command output")
       \/ /\ backend' = backend
          /\ result' = Cloud_fail
    /\ UNCHANGED <<mod, params, observed, context, history>>

\* delete_cloudhub_application
Cloud_delete_cloudhub_application ==
    /\ mod = "ap_runtime_mgr_cloudhub_application" /\ pc = "act"
    /\ params.state = "absent"
    /\ pc' = "done"
    /\ calls' = Append(calls, [op |-> "delete", id |-> params.name])
    /\ \/ /\ backend' = <<>>
          /\ result' = Cloud_exit_changed("command output")
       \/ /\ backend' = backend
          /\ result' = Cloud_fail
    /\ UNCHANGED <<mod, params, observed, context, history>>

NextCloud ==
    \/ Cloud_get_context
    \/ Cloud_create_or_update_cloudhub_application
    \/ Cloud_start_cloudhub_application
    \/ Cloud_undeploy_cloudhub_application
    \/ Cloud_delete_cloudhub_application
    \/ NextRun

SpecCloud == InitCloud /\ [][NextCloud]_vars

(***************************************************************************)
(* mulesoft/ap_api_mgr_api.py                                              *)
(***************************************************************************)
APIStates == {"present", "deprecated", "absent"}
APITarget == "sapi-notification-saas"
APIVersion == "1.0.1"

\* module.params['proxy']: <<>> is None (option not given)
APIProxies ==
    {<<>>, <<[scheme |-> "http", port |-> "8081", path |-> "/"]>>,
     <<[scheme |-> "http", port |-> "8081", path |-> None]>>}

APIParams ==
    [name : {APITarget}, asset_version : {APIVersion}, state : APIStates,
     type : {"raml"}, instance_label : {None, "My API"},
     uri : {None, "http://impl.example"}, with_proxy : BOOLEAN,
     proxy : APIProxies, check_mode : BOOLEAN]

\* a managed API: AssetID .. InstanceID are columns of 'api-mgr api list',
\* the others are fields of 'api-mgr api describe'; the describe command is
\* reported to print Deprecated 'N' whatever the API is (APC-22)
APIRecords ==
    [AssetID : {APITarget}, AssetVersion : {APIVersion}, InstanceID : {"15001"},
     Deprecated : {"Y", "N"}, DescribeDeprecated : {"Y", "N"},
     InstanceLabel : {None, "My API"}, ImplementationURI : {None},
     ProxyURI : {None}]

APIOther ==
    [AssetID |-> "papi-orders", AssetVersion |-> "1.0.0", InstanceID |-> "15000",
     Deprecated |-> "N", DescribeDeprecated |-> "N", InstanceLabel |-> None,
     ImplementationURI |-> None, ProxyURI |-> None]

\* the APIs the environment manages, as 'api-mgr api list' prints them
APIBackends ==
    {<<>>, <<APIOther>>}
    \cup {<<r>> : r \in {a \in APIRecords : a.Deprecated = "N" => a.DescribeDeprecated = "N"}}
    \cup {<<r, APIOther>> : r \in {a \in APIRecords : a.DescribeDeprecated = "N"}}

\* get_context, lines 232-236: the loop has no break, the last match is kept
APIFind(p, list) ==
    IF \E i \in 1..Len(list) :
            list[i].AssetID = p.name /\ list[i].AssetVersion = p.asset_version
    THEN CHOOSE i \in 1..Len(list) :
            /\ list[i].AssetID = p.name /\ list[i].AssetVersion = p.asset_version
            /\ \A j \in (i + 1)..Len(list) :
                    ~(list[j].AssetID = p.name /\ list[j].AssetVersion = p.asset_version)
    ELSE 0

\* check_if_update_needed on the output of describe
check_if_update_needed(p, api) ==
    IF api.InstanceLabel = None /\ p.instance_label # None THEN TRUE
    ELSE IF api.DescribeDeprecated = "Y" THEN TRUE
    ELSE IF api.ImplementationURI = None /\ p.uri # None THEN TRUE
    ELSE IF api.ProxyURI = None /\ p.with_proxy THEN TRUE
    ELSE FALSE

\* slip: state=absent acts whether or not the API is managed
API_get_context_value_AbsentAlwaysActs(p, list) ==
    LET i == APIFind(p, list)
    IN [do_nothing |-> p.state # "absent" /\ i # 0,
        api_managed |-> i # 0,
        api_deprecated |-> i # 0 /\ list[i].Deprecated = "Y",
        api_instance_id |-> IF i = 0 THEN None ELSE list[i].InstanceID]

\* get_context
API_get_context_value(p, list) ==
    LET i == APIFind(p, list)
        api_managed == i # 0
        api_deprecated == i # 0 /\ list[i].Deprecated = "Y"
    IN [do_nothing |->
            CASE p.state = "present" ->
                    api_managed /\ ~check_if_update_needed(p, list[i])
              [] p.state = "deprecated" -> api_managed /\ api_deprecated
              [] p.state = "absent" -> ~api_managed,
        api_managed |-> api_managed,
        api_deprecated |-> api_deprecated,
        api_instance_id |-> IF i = 0 THEN None ELSE list[i].InstanceID]

\* run_module, lines 428-432: "raise" when module.params['proxy'] is None and
\* is subscripted, the message of fail_json when a field is missing, None
\* when the arguments pass
API_check_arguments(p) ==
    IF p.state = "present" /\ p.with_proxy
    THEN IF p.proxy = <<>> THEN "raise"
         ELSE IF p.proxy[1].scheme = None \/ p.proxy[1].port = None \/ p.proxy[1].path = None
         THEN "you need to specify proxy.scheme, proxy.port and proxy.path for present state and with_proxy option"
         ELSE None
    ELSE None

InitAPI ==
    /\ mod = "ap_api_mgr_api"
    /\ params \in APIParams
    /\ backend \in APIBackends
    /\ pc = "start"
    /\ observed = NotRead
    /\ context = NoContext
    /\ calls = <<>>
    /\ result = InitResult
    /\ history = <<>>

\* run_module, lines 420-442: get_context, the do-nothing exit, the argument
\* checks and the check-mode exit
API_get_context ==
    /\ mod = "ap_api_mgr_api" /\ pc = "start"
    /\ observed' = <<backend>>
    /\ context' = API_get_context_value(params, backend)
    /\ IF context'.do_nothing
       THEN result' = exit_json(result) /\ pc' = "done"
       ELSE IF API_check_arguments(params) = "raise"
       THEN /\ result' = crash("TypeError: 'NoneType' object is not subscriptable")
            /\ pc' = "done"
       ELSE IF API_check_arguments(params) # None
       THEN result' = fail_json(API_check_arguments(params)) /\ pc' = "done"
       ELSE IF params.check_mode
       THEN result' = exit_json(result) /\ pc' = "done"
       ELSE result' = result /\ pc' = "act"
    /\ UNCHANGED <<mod, params, backend, calls, history>>

\* run_module, lines 452-456
API_exit_changed(m) == exit_json([result EXCEPT !.changed = TRUE, !.msg = m])

\* module.run_command returned a non-zero exit code
API_fail == fail_json("anypoint-cli error")

\* the list after the deprecate (v = "Y") or undeprecate (v = "N") command
\* on the API with instance id `id`
APISetDeprecated(list, id, v) ==
    [i \in 1..Len(list) |->
        IF list[i].InstanceID = id
        THEN [list[i] EXCEPT !.Deprecated = v] ELSE list[i]]

\* the list after the edit command on the API with instance id `id`
APIEdit(list, id, p) ==
    [i \in 1..Len(list) |->
        IF list[i].InstanceID = id /\ p.instance_label # None
        THEN [list[i] EXCEPT !.InstanceLabel = p.instance_label] ELSE list[i]]

\* the API the manage command creates
APIManaged(p) ==
    [AssetID |-> p.name, AssetVersion |-> p.asset_version, InstanceID |-> "15001",
     Deprecated |-> "N", DescribeDeprecated |-> "N",
     InstanceLabel |-> p.instance_label, ImplementationURI |-> None,
     ProxyURI |-> None]

\* create_update_api, lines 255-284: the options; line 264 applies unary plus
\* to module.params['uri'], which raises TypeError when uri is given
API_create_update_api_options ==
    /\ mod = "ap_api_mgr_api" /\ pc = "act"
    /\ params.state = "present"
    /\ IF params.uri # None
       THEN /\ result' = crash("TypeError: bad operand type for unary +: 'str'")
            /\ pc' = "done"
       ELSE /\ result' = result
            /\ pc' = IF context.api_managed /\ context.api_deprecated
                     THEN "undeprecate" ELSE "command"
    /\ UNCHANGED <<mod, params, backend, observed, context, calls, history>>

\* create_update_api, lines 291-294, and undeprecate_api
API_undeprecate_api ==
    /\ mod = "ap_api_mgr_api" /\ pc = "undeprecate"
    /\ calls' = Append(calls, [op |-> "undeprecate", id |-> context.api_instance_id])
    /\ \/ /\ backend' = APISetDeprecated(backend, context.api_instance_id, "N")
          /\ result' = result
          /\ pc' = "command"
       \/ /\ backend' = backend
          /\ result' = API_fail
          /\ pc' = "done"
    /\ UNCHANGED <<mod, params, observed, context, history>>

\* create_update_api, lines 296-315: either edit or manage
API_create_update_api ==
    /\ mod = "ap_api_mgr_api" /\ pc = "command"
    /\ pc' = "done"
    /\ IF context.api_managed
       THEN /\ calls' = Append(calls, [op |-> "edit", id |-> context.api_instance_id])
            /\ \/ /\ backend' = APIEdit(backend, context.api_instance_id, params)
                  /\ result' = API_exit_changed("command output")
               \/ /\ backend' = backend
                  /\ result' = API_fail
       ELSE /\ calls' = Append(calls, [op |-> "manage", id |-> params.name])
            /\ \/ /\ backend' = Append(backend, APIManaged(params))
                  /\ result' = API_exit_changed("Created new API with ID: 15001")
               \/ /\ backend' = backend
                  /\ result' = API_fail
    /\ UNCHANGED <<mod, params, observed, context, history>>

\* deprecate_api; line 337 concatenates context['api_instance_id'], which
\* raises TypeError when the API is not managed
API_deprecate_api ==
    /\ mod = "ap_api_mgr_api" /\ pc = "act"
    /\ params.state = "deprecated"
    /\ pc' = "done"
    /\ IF context.api_instance_id = None
       THEN /\ result' = crash("TypeError: can only concatenate str (not \"NoneType\") to str")
            /\ UNCHANGED <<backend, calls>>
       ELSE /\ calls' = Append(calls, [op |-> "deprecate", id |-> context.api_instance_id])
            /\ \/ /\ backend' = APISetDeprecated(backend, context.api_instance_id, "Y")
                  /\ result' = API_exit_changed("command output")
               \/ /\ backend' = backend
                  /\ result' = API_fail
    /\ UNCHANGED <<mod, params, observed, context, history>>

\* delete_api
API_delete_api ==
    /\ mod = "ap_api_mgr_api" /\ pc = "act"
    /\ params.state = "absent"
    /\ pc' = "done"
    /\ calls' = Append(calls, [op |-> "delete", id |-> context.api_instance_id])
    /\ \/ /\ backend' = SelectSeq(backend, LAMBDA a : a.InstanceID # context.api_instance_id)
          /\ result' = API_exit_changed("command output")
       \/ /\ backend' = backend
          /\ result' = API_fail
    /\ UNCHANGED <<mod, params, observed, context, history>>

NextAPI ==
    \/ API_get_context
    \/ API_create_update_api_options
    \/ API_undeprecate_api
    \/ API_create_update_api
    \/ API_deprecate_api
    \/ API_delete_api
    \/ NextRun

SpecAPI == InitAPI /\ [][NextAPI]_vars

(***************************************************************************)
(* mulesoft/ap_exchange_public_portal.py                                   *)
(***************************************************************************)
\* module.params['home'] and module.params['navbar']: <<>> is None (option
\* not given), a suboption that is not given is None
PortalHomeOptions ==
    {<<>>} \cup
    {<<h>> : h \in [hero_image : {None, "/tmp/hero.png"}, text_color : {None, "#000000"},
                    welcome_title : {None, "Hello"}, welcome_text : {None}]}

PortalNavbarOptions ==
    {<<>>} \cup
    {<<n>> : n \in [logo_image : {None, "/tmp/logo.png"}, fav_icon : {None, "/tmp/fav.ico"},
                    text_color : {None, "#111111"}, text_color_active : {None},
                    background_color : {None}]}

PortalParams ==
    [state : {"default", "modified"}, home : PortalHomeOptions,
     navbar : PortalNavbarOptions, check_mode : BOOLEAN]

\* customization.home and customization.navbar of a draft: <<>> when the key
\* is not in the dict, a field that is not in the dict is None
PortalEmptyHome ==
    [heroImage |-> None, textColor |-> None, welcomeTitle |-> None, welcomeText |-> None]

PortalEmptyNavbar ==
    [logoImage |-> None, favicon |-> None, textColor |-> None,
     textColorActive |-> None, backgroundColor |-> None]

PortalHomes ==
    {<<>>, <<PortalEmptyHome>>,
     <<[heroImage |-> "resources/old-hero.png", textColor |-> "#FFFFFF",
        welcomeTitle |-> "Welcome", welcomeText |-> "Build faster"]>>}

PortalNavbars ==
    {<<>>,
     <<[logoImage |-> "resources/old-logo.png", favicon |-> None, textColor |-> "#FFFFFF",
        textColorActive |-> "#00A2DF", backgroundColor |-> "#262728"]>>}

PortalDrafts ==
    [pages : {<<>>, <<"getting-started">>}, home : PortalHomes,
     navbar : PortalNavbars, login : {"login customization"}]

\* the draft of the portal, what is published, and the number of image
\* resources uploaded to the draft
PortalBackends == [draft : PortalDrafts, published : {None}, resources : {0}]

\* publish_portal, lines 214-221
PortalDefaultContent ==
    [pages |-> <<>>, home |-> <<PortalEmptyHome>>, navbar |-> <<>>, login |-> "{}"]

\* create_image_resource returns the path of the resource it created
PortalResourcePath(file_name) ==
    CASE file_name = "/tmp/hero.png" -> "resources/hero.png"
      [] file_name = "/tmp/logo.png" -> "resources/logo.png"
      [] file_name = "/tmp/fav.ico" -> "resources/fav.ico"

\* slip: the fields whose suboption is not given are emptied
PortalSetHome_ResetUnspecified(payload, h) ==
    [payload EXCEPT !.home =
        <<[heroImage |-> IF h.hero_image # None
                         THEN PortalResourcePath(h.hero_image) ELSE None,
           textColor |-> h.text_color,
           welcomeTitle |-> h.welcome_title,
           welcomeText |-> h.welcome_text]>>]

\* publish_portal, lines 228-238: the home values that are present
PortalSetHome(payload, h) ==
    LET old == IF payload.home = <<>> THEN PortalEmptyHome ELSE payload.home[1] IN
    [payload EXCEPT !.home =
        <<[heroImage |-> IF h.hero_image # None
                         THEN PortalResourcePath(h.hero_image) ELSE old.heroImage,
           textColor |-> IF h.text_color # None THEN h.text_color ELSE old.textColor,
           welcomeTitle |-> IF h.welcome_title # None
                            THEN h.welcome_title ELSE old.welcomeTitle,
           welcomeText |-> IF h.welcome_text # None
                           THEN h.welcome_text ELSE old.welcomeText]>>]

\* publish_portal, lines 241-254: the navbar values that are present
PortalSetNavbar(payload, n) ==
    LET old == IF payload.navbar = <<>> THEN PortalEmptyNavbar ELSE payload.navbar[1] IN
    [payload EXCEPT !.navbar =
        <<[logoImage |-> IF n.logo_image # None
                         THEN PortalResourcePath(n.logo_image) ELSE old.logoImage,
           favicon |-> IF n.fav_icon # None
                       THEN PortalResourcePath(n.fav_icon) ELSE old.favicon,
           textColor |-> IF n.text_color # None THEN n.text_color ELSE old.textColor,
           textColorActive |-> IF n.text_color_active # None
                               THEN n.text_color_active ELSE old.textColorActive,
           backgroundColor |-> IF n.background_color # None
                               THEN n.background_color ELSE old.backgroundColor]>>]

\* the image files publish_portal uploads for a dict of suboptions
PortalHomeImages(h) == IF h.hero_image # None THEN <<h.hero_image>> ELSE <<>>

PortalNavbarImages(n) ==
    (IF n.logo_image # None THEN <<n.logo_image>> ELSE <<>>)
    \o (IF n.fav_icon # None THEN <<n.fav_icon>> ELSE <<>>)

PortalImageCalls(files) ==
    [i \in 1..Len(files) |-> [op |-> "create_image_resource", id |-> files[i]]]

InitPortal ==
    /\ mod = "ap_exchange_public_portal"
    /\ params \in PortalParams
    /\ backend \in PortalBackends
    /\ pc = "start"
    /\ observed = NotRead
    /\ context = NoContext
    /\ calls = <<>>
    /\ result = InitResult
    /\ history = <<>>

\* run_module, lines 323-331, and publish_portal, lines 213-223: check mode,
\* do_no_action (always False), the default content or the draft of the portal
Portal_get_portal_draft_content ==
    /\ mod = "ap_exchange_public_portal" /\ pc = "start"
    /\ UNCHANGED <<mod, params, backend, calls, history>>
    /\ IF params.check_mode
       THEN /\ result' = exit_json(result)
            /\ pc' = "done"
            /\ UNCHANGED <<observed, context>>
       ELSE IF params.state = "default"
       THEN /\ context' = [do_nothing |-> FALSE, payload |-> PortalDefaultContent]
            /\ pc' = "put"
            /\ UNCHANGED <<observed, result>>
       ELSE /\ observed' = <<backend.draft>>
            /\ context' = [do_nothing |-> FALSE, payload |-> backend.draft]
            /\ pc' = "home"
            /\ result' = result

\* a step of publish_portal over the suboptions `opt` of home or navbar:
\* subscripting None raises; every image is uploaded with
\* create_image_resource, which ends the run with fail_json when it fails
Portal_set(opt, images, payload, to) ==
    IF opt = <<>>
    THEN /\ result' = crash("TypeError: 'NoneType' object is not subscriptable")
         /\ pc' = "done"
         /\ UNCHANGED <<backend, context, calls>>
    ELSE \/ /\ calls' = calls \o PortalImageCalls(images)
            /\ backend' = [backend EXCEPT !.resources = @ + Len(images)]
            /\ context' = [context EXCEPT !.payload = payload]
            /\ pc' = to
            /\ result' = result
         \/ \E k \in 1..Len(images) :
            /\ calls' = calls \o PortalImageCalls(SubSeq(images, 1, k))
            /\ backend' = [backend EXCEPT !.resources = @ + (k - 1)]
            /\ context' = context
            /\ pc' = "done"
            /\ result' = fail_json("[create_image_resource] error")

\* publish_portal, lines 228-238
Portal_set_home ==
    /\ mod = "ap_exchange_public_portal" /\ pc = "home"
    /\ Portal_set(params.home,
                  IF params.home = <<>> THEN <<>> ELSE PortalHomeImages(params.home[1]),
                  IF params.home = <<>> THEN context.payload
                  ELSE PortalSetHome(context.payload, params.home[1]),
                  "navbar")
    /\ UNCHANGED <<mod, params, observed, history>>

\* publish_portal, lines 241-254
Portal_set_navbar ==
    /\ mod = "ap_exchange_public_portal" /\ pc = "navbar"
    /\ Portal_set(params.navbar,
                  IF params.navbar = <<>> THEN <<>> ELSE PortalNavbarImages(params.navbar[1]),
                  IF params.navbar = <<>> THEN context.payload
                  ELSE PortalSetNavbar(context.payload, params.navbar[1]),
                  "put")
    /\ UNCHANGED <<mod, params, observed, history>>

\* publish_portal, lines 256-260: PUT of the draft
Portal_put_draft ==
    /\ mod = "ap_exchange_public_portal" /\ pc = "put"
    /\ calls' = Append(calls, [op |-> "put_draft", id |-> "draft"])
    /\ \/ /\ backend' = [backend EXCEPT !.draft = context.payload]
          /\ pc' = "publish"
          /\ result' = result
       \/ /\ backend' = backend
          /\ pc' = "done"
          /\ result' = fail_json("[publish_portal:1] error")
    /\ UNCHANGED <<mod, params, observed, context, history>>

\* publish_portal, lines 262-266: PATCH of the portal, and run_module, lines
\* 335-337
Portal_publish ==
    /\ mod = "ap_exchange_public_portal" /\ pc = "publish"
    /\ calls' = Append(calls, [op |-> "publish", id |-> "portal"])
    /\ pc' = "done"
    /\ \/ /\ backend' = [backend EXCEPT !.published = backend.draft]
          /\ result' = exit_json([result EXCEPT !.changed = TRUE,
                                                !.msg = "home page updated"])
       \/ /\ backend' = backend
          /\ result' = fail_json("[publish_portal:2] error")
    /\ UNCHANGED <<mod, params, observed, context, history>>

NextPortal ==
    \/ Portal_get_portal_draft_content
    \/ Portal_set_home
    \/ Portal_set_navbar
    \/ Portal_put_draft
    \/ Portal_publish
    \/ NextRun

SpecPortal == InitPortal /\ [][NextPortal]_vars

(***************************************************************************)
(* Claims about ap_account_user (checked under SpecUser).  A run in check  *)
(* mode never reaches the read, so the claims about what a run does with   *)
(* the observed user are about runs that are not in check mode.            *)
(***************************************************************************)
\* the run before the current one
PrevRun == history[Len(history)]

\* the current run has ended and it read the backend (it was not a check-mode run)
UserRunDone == mod = "ap_account_user" /\ pc = "done" /\ ~params.check_mode

HasCall(cs, o) == \E i \in 1..Len(cs) : cs[i].op = o

\* C1: ap_account_user is idempotent: for every target state, declared
\* fields and initial backend, when a run has ended successfully the next run
\* with the same parameters against the backend it left returns
\* changed=false and issues no mutating call (so that changed=true is
\* reported at most once).
C1_UserIdempotent ==
    (mod = "ap_account_user" /\ pc = "done" /\ Len(history) >= 1
        /\ PrevRun.result.outcome = "exit")
    => /\ result.outcome = "exit"
       /\ result.changed = FALSE
       /\ calls = <<>>

\* a first run that changed something followed by a second run that ended
C1_Witness ==
    /\ UserRunDone /\ Len(history) >= 1
    /\ PrevRun.result.outcome = "exit" /\ PrevRun.result.changed
    /\ Len(PrevRun.calls) = 2
    /\ result.outcome = "exit" /\ ~result.changed

\* C8 as stated: with state=present or state=disabled, when no user
\* with the declared username exists, the run issues the create-user call and
\* reports changed=true.
C8_CreateForEveryNonAbsentTarget ==
    (UserRunDone /\ params.state \in {"present", "disabled"} /\ context.id = None)
    => /\ HasCall(calls, "create_user")
       /\ result.outcome = "exit" => result.changed

\* C8 amended: with state=present and no user with the declared username
\* the run issues exactly the create-user call and, when it succeeds, reports
\* changed=true; with state=disabled and no such user the run issues no call
\* and reports changed=false.
C8_CreateOnlyForPresent ==
    (UserRunDone /\ context.id = None)
    => /\ params.state = "present" =>
            /\ Len(calls) = 1 /\ calls[1].op = "create_user"
            /\ result.outcome = "exit" => result.changed
       /\ params.state = "disabled" =>
            /\ calls = <<>>
            /\ result.outcome = "exit" /\ ~result.changed

C8_Witness ==
    /\ UserRunDone /\ context.id = None /\ params.state = "present"
    /\ HasCall(calls, "create_user") /\ result.changed
    /\ \E i \in 1..Len(backend) : backend[i].username = params.name

\* the observed user is disabled and all three declared fields equal the observed ones
UserPureTransition ==
    /\ UserRunDone /\ params.state = "present"
    /\ context.id # None /\ context.enabled = FALSE
    /\ \E i \in 1..Len(observed) :
          /\ observed[i].id = context.id
          /\ ~user_needs_update(params, observed[i])

\* C10 as stated: with state=present, a disabled user and no field
\* difference, the run issues only the enablement call and no update call.
C10_OnlyEnablement ==
    (UserPureTransition /\ result.outcome = "exit")
    => /\ ~HasCall(calls, "update_user")
       /\ HasCall(calls, "enable")

\* C10 amended: with state=present, a disabled user and no field
\* difference, the run first issues the update call for the user's fields
\* (carrying the unchanged values) and then, when that call succeeds, the
\* enablement call; no other call is issued.
C10_UpdateThenEnable ==
    UserPureTransition
    => /\ Len(calls) >= 1 /\ calls[1].op = "update_user"
       /\ result.outcome = "exit" =>
            /\ Len(calls) = 2 /\ calls[2].op = "enable"
            /\ result.changed

C10_Witness ==
    /\ UserPureTransition
    /\ result.outcome = "exit" /\ Len(calls) = 2
    /\ \E i \in 1..Len(backend) : backend[i].id = context.id /\ backend[i].enabled

\* the observed user is disabled and a declared field differs from the observed one
UserDriftAndDisabled ==
    /\ UserRunDone /\ params.state = "present"
    /\ context.id # None /\ context.enabled = FALSE
    /\ \E i \in 1..Len(observed) :
          /\ observed[i].id = context.id
          /\ user_needs_update(params, observed[i])

\* C11: with state=present, a disabled user and a field difference,
\* the enablement is not skipped: the first call is the update of the fields,
\* the second the enablement, and after a successful run the user carries the
\* declared fields and is enabled.
C11_UpdateBeforeEnable ==
    UserDriftAndDisabled
    => /\ Len(calls) >= 1 /\ calls[1].op = "update_user"
       /\ Len(calls) >= 2 => calls[2].op = "enable"
       /\ result.outcome = "exit" =>
            /\ Len(calls) = 2
            /\ result.changed
            /\ \E i \in 1..Len(backend) :
                  /\ backend[i].id = context.id
                  /\ backend[i].enabled
                  /\ ~user_needs_update(params, backend[i])

C11_Witness ==
    /\ UserDriftAndDisabled
    /\ result.outcome = "exit" /\ Len(calls) = 2
    /\ \E i \in 1..Len(backend) :
          backend[i].id = context.id /\ backend[i].enabled
          /\ backend[i].email = params.email

(***************************************************************************)
(* Claims about mulesoft/ap_api_mgr_policy (checked under SpecPolicy)      *)
(***************************************************************************)
PolicyRunDone == mod = "ap_api_mgr_policy" /\ pc = "done" /\ ~params.check_mode

\* C2: ap_api_mgr_policy is idempotent for state=present: after a
\* successful run with state=present has applied the policy with the declared
\* version and configuration, a second run with the same parameters returns
\* changed=false and issues no apply/edit/remove command.
C2_PolicyPresentIdempotent ==
    (PolicyRunDone /\ params.state = "present" /\ Len(history) >= 1
        /\ PrevRun.result.outcome = "exit" /\ PrevRun.result.changed)
    => /\ result.changed = FALSE
       /\ calls = <<>>

\* the policy with the declared Asset ID that the read of this run found
PolicyObserved == observed[PolicyFind(params, observed)]

PolicyRunOnApplied ==
    /\ PolicyRunDone /\ params.state = "present"
    /\ PolicyFind(params, observed) # 0

\* C7: with state=present and a policy with the declared Asset ID
\* applied, a run that did not end in fail_json has issued 'remove' for the
\* old policy id and then 'apply', and no 'edit', when the applied Asset
\* Version differs from policy_version; and exactly one 'edit' and no
\* 'remove' when the versions are equal.
C7_PolicyVersionReplace ==
    (PolicyRunOnApplied /\ result.outcome # "fail")
    => IF PolicyObserved.AssetVersion # params.policy_version
       THEN /\ Len(calls) = 2
            /\ calls[1] = [op |-> "remove", id |-> PolicyObserved.ID]
            /\ calls[2].op = "apply"
       ELSE /\ Len(calls) = 1
            /\ calls[1].op = "edit"

(***************************************************************************)
(* Claims about ap_exchange_common.analyze_asset (checked under            *)
(* SpecAnalyze)                                                            *)
(***************************************************************************)
AnalyzeDone == mod = "ap_exchange_common" /\ pc = "done"

\* the remote icon of the analyzed asset, 0 if it has none
AnalyzedIcon == ActualIcon(observed[1].files)

\* C5: icon presence policy: must_update_icon is true exactly when a
\* declared icon exists and no remote icon exists, or no declared icon exists
\* and a remote icon exists, or both exist and the MD5 of the declared icon
\* differs from the remote icon's md5; in particular when both exist and the
\* digests are equal must_update_icon is false.
C5_IconPresencePolicy ==
    AnalyzeDone
    => context.must_update_icon =
          (\/ params.icon # None /\ AnalyzedIcon = 0
           \/ params.icon = None /\ AnalyzedIcon # 0
           \/ /\ params.icon # None /\ AnalyzedIcon # 0
              /\ md5(params.icon) # observed[1].files[AnalyzedIcon].md5)

\* the members of a tag list
TagMembers(t) == {t[i] : i \in 1..Len(t)}

\* C13: the tag diff of analyze_asset is order-independent:
\* must_update_tags is false when the declared tags and the observed labels
\* hold the same members in any order, and true when their members differ.
C13_TagDiffOrderIndependent ==
    AnalyzeDone
    => context.must_update_tags =
          (TagMembers(params.tags) # TagMembers(observed[1].labels))

(***************************************************************************)
(* Claims about anypoint/ap_design_center_project (checked under SpecDCP)  *)
(***************************************************************************)
\* C3: ap_design_center_project is idempotent for state=present with
\* project_dir set: once a run has created the project and uploaded
\* project_dir, a second run with the same parameters returns changed=false
\* and issues neither a create nor an upload command.
C3_DCPPresentIdempotent ==
    (mod = "ap_design_center_project" /\ pc = "done"
        /\ params.state = "present" /\ params.project_dir # None
        /\ Len(history) >= 1 /\ PrevRun.result.outcome = "exit"
        /\ HasCall(PrevRun.calls, "create") /\ HasCall(PrevRun.calls, "upload"))
    => /\ result.changed = FALSE
       /\ ~HasCall(calls, "create")
       /\ ~HasCall(calls, "upload")

(***************************************************************************)
(* Claims about anypoint/ap_api_mgr_automated_policy (checked under SpecAP)*)
(***************************************************************************)
\* the automated policy with the declared assetId that the read found
APObserved == observed[APFind(params, observed)]

\* C6: with state=present, whenever an automated policy with the
\* declared assetId is applied with an assetVersion different from the
\* declared version (whatever its configuration, pointcut and rule of
\* application), a run that did not end in fail_json has issued DELETE of the
\* existing policy followed by POST of a new one, never a PATCH, and reports
\* changed=true.
C6_AutomatedPolicyReplace ==
    (mod = "ap_api_mgr_automated_policy" /\ pc = "done"
        /\ ~params.check_mode /\ params.state = "present"
        /\ observed # NotRead /\ APFind(params, observed) # 0
        /\ APObserved.assetVersion # params.version
        /\ result.outcome # "fail")
    => /\ Len(calls) = 2
       /\ calls[1] = [op |-> "DELETE", id |-> APObserved.id]
       /\ calls[2].op = "POST"
       /\ result.changed

(***************************************************************************)
(* Claims about anypoint/ap_exchange_asset (checked under SpecAsset)       *)
(***************************************************************************)
\* the read of this run found the asset, and the declared tags or the
\* declared description differ from the observed ones
AssetFieldDrift ==
    /\ mod = "ap_exchange_asset" /\ pc = "done" /\ ~params.check_mode
    /\ observed # NotRead /\ observed[1] # <<>>
    /\ \/ params.tags # observed[1][1].labels
       \/ /\ params.description # None
          /\ params.description # observed[1][1].description

\* C9: with state=deprecated, when the asset exists and the declared
\* tags or description differ from the observed ones, a run that ends
\* successfully has issued the modify calls (tags, description, icon), whether
\* the asset was deprecated already or not.
C9_DeprecatedFieldDrift ==
    (AssetFieldDrift /\ params.state = "deprecated" /\ result.outcome = "exit")
    => /\ HasCall(calls, "set_asset_tags")
       /\ HasCall(calls, "set_asset_description")
       /\ HasCall(calls, "set_asset_icon")

(***************************************************************************)
(* Claims about state=absent (every module with a delete operation)        *)
(***************************************************************************)
\* the run has ended, it was not a check-mode run, the target is absent and
\* what the run read holds no resource with the declared name
AbsentTargetMissing ==
    /\ pc = "done" /\ ~params.check_mode /\ params.state = "absent"
    /\ CASE mod = "ap_mq_destination" ->
               /\ observed # NotRead
               /\ \A i \in 1..Len(observed[1]) : observed[1][i].id # params.name
         [] mod = "ap_account_business_group" ->
               /\ observed # NotRead
               /\ BG_get_context_value(params, observed[1]).target_id = None
         [] mod = "mulesoft.ap_account_business_group" ->
               /\ observed # NotRead
               /\ MBGFind(params, observed[1].subOrganizations) = None
         [] mod = "ap_exchange_asset" ->
               observed # NotRead /\ observed[1] = <<>>
         [] mod = "ap_design_center_project" ->
               /\ observed # NotRead
               /\ get_context_design_center(params, observed[1].projects) = None
         [] mod = "ap_account_user" -> UserFind(params, observed) = 0
         [] mod = "ap_api_mgr_policy" -> PolicyFind(params, observed) = 0
         [] mod = "ap_api_mgr_automated_policy" -> APFind(params, observed) = 0
         [] OTHER -> FALSE

\* C4: with state=absent, when the read finds no matching resource the
\* run ends successfully with changed=false and has issued no mutating call; it
\* never fails, also when optional parameters (the MQ attributes, the parent of
\* a business group) are not given or the parent is not found.
C4_AbsentOnMissing ==
    AbsentTargetMissing
    => /\ result.outcome = "exit"
       /\ result.changed = FALSE
       /\ calls = <<>>

(***************************************************************************)
(* Claims about mulesoft/ap_api_mgr_api_contract (checked under SpecContract) *)
(***************************************************************************)
\* the read of this run found a contract of the declared application and
\* the target is absent
ContractToDelete ==
    /\ mod = "ap_api_mgr_api_contract" /\ ~params.check_mode
    /\ params.state = "absent"
    /\ observed # NotRead /\ ContractFind(params, observed[1]) # 0

ContractObservedStatus == observed[1][ContractFind(params, observed[1])].status

\* the contract the run is deleting, as the platform holds it now
ContractHeldRevoked ==
    \A i \in 1..Len(backend.contracts) :
        backend.contracts[i].id = context.contract_id
        => backend.contracts[i].status = "REVOKED"

\* C12: with state=absent and an existing contract, the DELETE is
\* issued only while the contract is REVOKED: when the observed status is not
\* REVOKED a revoke call comes strictly before the DELETE, when it is REVOKED
\* no revoke call is issued.
C12_RevokeBeforeDelete ==
    ContractToDelete
    => /\ (pc = "delete" \/ (pc = "act" /\ ~Contract_must_revoke(context)))
            => ContractHeldRevoked
       /\ ContractObservedStatus # "REVOKED" =>
            /\ Len(calls) >= 1 => calls[1].op = "revoke"
            /\ HasCall(calls, "delete") =>
                  Len(calls) = 2 /\ calls[2].op = "delete"
       /\ ContractObservedStatus = "REVOKED" => ~HasCall(calls, "revoke")

C12_Witness ==
    /\ ContractToDelete /\ pc = "done"
    /\ ContractObservedStatus = "APPROVED"
    /\ result.outcome = "exit"
    /\ Len(calls) = 2 /\ calls[1].op = "revoke" /\ calls[2].op = "delete"

MutatingCallFailed ==
    /\ mod \in {"mulesoft.ap_account_environment", "mulesoft.ap_account_business_group"}
    /\ Len(calls') = Len(calls) + 1
    /\ backend' = backend

\* C15: when the mutating call fails the run ends in the failed outcome
\* (fail_json) carrying the error, never in a successful exit (exit_json).
C15_MutatorFailureFatal ==
    [][MutatingCallFailed => result'.outcome = "fail"]_vars

(***************************************************************************)
(* Claims about a failure after a successful create (SpecAsset)            *)
(***************************************************************************)
\* ap_exchange_asset with state=deprecated on a missing asset: the upload and
\* the calls of modify_exchange_asset succeeded, the deprecate command failed
AssetDeprecateFailedAfterUpload ==
    /\ mod = "ap_exchange_asset" /\ pc = "done" /\ ~params.check_mode
    /\ params.state = "deprecated"
    /\ observed = << <<>> >>
    /\ calls # <<>> /\ calls[Len(calls)].op = "deprecate"
    /\ result.outcome = "fail"
    /\ backend # <<>>

\* C16: when the create succeeds and the required transition that
\* follows it fails, the result of the run carries changed=true together with
\* the error of the transition.
C16_PartialChangeReported ==
    AssetDeprecateFailedAfterUpload
    => /\ result.changed = TRUE
       /\ result.msg = "[execute_anypoint_cli] deprecate failed"

(***************************************************************************)
(* Claims about anypoint/ap_account_business_group (checked under SpecBG)  *)
(***************************************************************************)
\* the run has ended and the business-group list it read holds neither the
\* organization with the given parent_id nor, when no parent_id is given, a
\* Master organization
BGParentMissing ==
    /\ mod = "ap_account_business_group" /\ pc = "done" /\ ~params.check_mode
    /\ observed # NotRead
    /\ LET list == BG_list(observed[1]) IN
       ~\E i \in 1..Len(list) :
            IF params.parent_id = None \/ params.parent_id = ""
            THEN list[i].Type = "Master"
            ELSE list[i].Id = params.parent_id

\* C17 as stated: for every target state a missing parent makes the
\* run fail with 'parent org not found' without any mutating call.
C17_MissingParentAlwaysFatal ==
    BGParentMissing
    => /\ result.outcome = "fail"
       /\ result.msg = "parent org not found"
       /\ calls = <<>>

\* C17 amended: a missing parent is fatal for state=present (the run
\* fails with 'parent org not found' and issues no call); with state=absent
\* the run ends successfully with changed=false and issues no call.
C17_MissingParentFatalForPresent ==
    BGParentMissing
    => /\ calls = <<>>
       /\ params.state = "present" =>
            result.outcome = "fail" /\ result.msg = "parent org not found"
       /\ params.state = "absent" =>
            result.outcome = "exit" /\ result.changed = FALSE

C17_Witness ==
    /\ BGParentMissing
    /\ params.state = "present" /\ params.parent_id = "org-unknown"
    /\ result.outcome = "fail" /\ result.msg = "parent org not found"

(***************************************************************************)
(* Claims about an ambiguous read (checked under SpecAP)                   *)
(***************************************************************************)
\* the list the run read holds two automated policies with the declared assetId
APAmbiguous ==
    /\ mod = "ap_api_mgr_automated_policy" /\ pc = "done" /\ ~params.check_mode
    /\ \E i, j \in 1..Len(observed) :
          /\ i # j
          /\ observed[i].assetId = params.name
          /\ observed[j].assetId = params.name

\* C18: when the list returned by the read holds two entries with the
\* same natural key, the run fails without issuing any mutating call instead
\* of selecting one of the entries.
C18_AmbiguousReadFatal ==
    APAmbiguous => result.outcome = "fail" /\ calls = <<>>

(***************************************************************************)
(* Claims about runs in parallel (checked under SpecPagePar)               *)
(***************************************************************************)
\* what a run with parameters p ends with when it runs alone on an asset
\* whose page holds `page`: <<outcome, changed, page afterwards>>
PageAloneResults(p, page) ==
    LET want == PageFileMd5(p.md_path) IN
    CASE p.state = "present" /\ page = want -> {<<"exit", FALSE, page>>}
      [] p.state = "present" /\ page # want ->
            {<<"exit", TRUE, want>>, <<"fail", FALSE, page>>}
      [] p.state = "absent" /\ page = None -> {<<"exit", FALSE, None>>}
      [] p.state = "absent" /\ page # None ->
            {<<"exit", TRUE, None>>, <<"fail", FALSE, page>>}

\* C19: two runs for two different pages do not interfere: under every
\* interleaving of their steps, the outcome of each run and the final state of
\* its own page are those of the run executed alone.
C19_ParallelRunsIndependent ==
    mod = "ap_exchange_asset_page"
    => \A r \in PageRuns :
          pc[r] = "done"
          => <<result[r].outcome, result[r].changed, backend.pages[params[r].name]>>
                \in PageAloneResults(params[r], observed[r][1][params[r].name])

(***************************************************************************)
(* Claims about the arguments of ap_exchange_asset (checked under          *)
(* SpecAsset)                                                              *)
(***************************************************************************)
\* a task for an example or template that gives file_path and no maven option
AssetFileWithoutMaven ==
    /\ mod = "ap_exchange_asset"
    /\ ~params.check_mode
    /\ params.state = "present"
    /\ params.type \in {"example", "template"}
    /\ params.file_path # None
    /\ params.maven = <<>>

\* C20: with state=present, type example or template, file_path given and no
\* maven option, the validation of the arguments passes (no 'requires a
\* project directory' failure) and the run goes on to upload the file.
C20_MavenOptionalWithFilePath ==
    AssetFileWithoutMaven /\ pc = "done"
    => /\ result.msg # "asset type template or example requires a project directory to build it"
       /\ HasCall(calls, "upload")

(***************************************************************************)
(* Claims about ap_runtime_mgr_cloudhub_application (checked under         *)
(* SpecCloud)                                                              *)
(***************************************************************************)
\* a state=present task with file, runtime and properties_file, where the
\* user gives none of properties, api_manager, visualizer, monitoring_enabled
\* (monitoring_enabled then holds its default, False)
CloudOnlyPropertiesFile ==
    /\ mod = "ap_runtime_mgr_cloudhub_application"
    /\ params.state = "present"
    /\ params.file # None /\ params.runtime # None
    /\ params.properties_file # None
    /\ params.properties = None
    /\ params.api_manager = <<>> /\ params.visualizer = <<>>
    /\ params.monitoring_enabled = FALSE

\* C21: with state=present, file, runtime and properties_file given and none
\* of properties, api_manager, visualizer, monitoring_enabled supplied, the
\* validation of the arguments passes: the run does not end with the "you
\* can't use 'properties_file' in conjunction with ..." failure.
C21_PropertiesFileUsable ==
    CloudOnlyPropertiesFile /\ pc = "done"
    => ~(/\ result.outcome = "fail"
         /\ result.msg = "you can't use 'properties_file' in conjunction with 'properties', 'api_manager', 'visualizer_layer' or 'monitoring_enabled'")

\* a run for a transition-only target has read the backend and found no
\* application with the name (ap_runtime_mgr_cloudhub_application, states
\* started and undeployed)
CloudTransitionOnMissing ==
    /\ mod = "ap_runtime_mgr_cloudhub_application" /\ pc = "done"
    /\ ~params.check_mode
    /\ params.state \in {"started", "undeployed"}
    /\ observed = <<(<<>>)>>

\* the same for ap_api_mgr_policy, states enabled and disabled: no policy with
\* the Asset ID is applied on the API
PolicyTransitionOnMissing ==
    /\ mod = "ap_api_mgr_policy" /\ pc = "done"
    /\ params.state \in {"enabled", "disabled"}
    /\ \A i \in 1..Len(observed) : observed[i].AssetID # params.name

DCPUnpublishedMetaMissing ==
    /\ mod = "ap_design_center_project"
    /\ params.state = "unpublished"
    /\ params.exchange_metadata # <<>>
    /\ \/ params.exchange_metadata[1].main = None
       \/ params.exchange_metadata[1].group_id = None
       \/ params.exchange_metadata[1].asset_id = None

\* C23: with state=unpublished and exchange_metadata.main, group_id or
\* asset_id missing, the run fails with the "published|unpublished state needs
\* 'exchange_metadata...' option" error before any remote call is made.
C23_UnpublishedMetadataValidated ==
    DCPUnpublishedMetaMissing /\ pc = "done"
    => /\ result.outcome = "fail"
       /\ result.msg \in
            {"published|unpublished state needs 'exchange_metadata.main' option",
             "published|unpublished state needs 'exchange_metadata.group_id' option",
             "published|unpublished state needs 'exchange_metadata.asset_id' option"}
       /\ observed = NotRead
       /\ calls = <<>>

\* a state=present run of ap_runtime_mgr_cloudhub_application that has read
\* the application
CloudPresentRead ==
    /\ mod = "ap_runtime_mgr_cloudhub_application"
    /\ ~params.check_mode
    /\ params.state = "present"
    /\ observed # NotRead

\* worker_size in tenths of a vCore
CloudTenths(worker_size) == CASE worker_size = "0.1" -> 1 [] worker_size = "0.2" -> 2

\* one of the compared fields of the application differs from the task
CloudFieldDiffers(p, app) ==
    <<app.region, app.muleVersion, app.persistentQueues,
      app.persistentQueuesEncrypted, app.staticIPsEnabled,
      app.monitoringAutoRestart, app.amount, app.weight>>
    # <<p.region, p.runtime, p.persistent_queues, p.persistent_queues_encripted,
        p.static_ips_enabled, p.auto_restart, p.workers, CloudTenths(p.worker_size)>>

\* C24: with state=present, 'deploy' is issued only when no application with
\* the name exists, 'modify' only when it exists and a compared field (region,
\* runtime, persistent queues, encryption, static IPs, auto restart, workers,
\* worker size) differs, and neither when it exists with all of them equal.
C24_DeployOrModify ==
    CloudPresentRead
    => /\ HasCall(calls, "deploy") => observed[1] = <<>>
       /\ HasCall(calls, "modify") =>
            observed[1] # <<>> /\ CloudFieldDiffers(params, observed[1][1])
       /\ (observed[1] # <<>> /\ ~CloudFieldDiffers(params, observed[1][1]))
            => calls = <<>> /\ (pc = "done" => result = exit_json(InitResult))
       /\ Len(calls) <= 1

C24_Witness ==
    /\ CloudPresentRead
    /\ HasCall(calls, "modify")
    /\ observed[1][1].amount = 2
    /\ result.outcome = "exit"

(***************************************************************************)
(* Claims about mulesoft/ap_api_mgr_api (checked under SpecAPI)            *)
(***************************************************************************)
\* a state=present run has ended after it went into create_update_api: the
\* read asked for a change, the arguments passed, check mode is off
APICreateUpdateDone ==
    /\ mod = "ap_api_mgr_api" /\ pc = "done"
    /\ params.state = "present" /\ ~params.check_mode
    /\ observed # NotRead
    /\ ~context.do_nothing
    /\ API_check_arguments(params) = None

APICall(o, i) == [op |-> o, id |-> i]

\* C25: with state=present, when the API is managed and listed as deprecated
\* 'undeprecate' for its instance id is issued exactly once and strictly
\* before 'edit' (which follows unless undeprecate failed); when it is managed
\* and not deprecated only 'edit' is issued; when it is not managed only
\* 'manage' is issued.
C25_UndeprecateThenEdit ==
    APICreateUpdateDone
    => LET id == context.api_instance_id IN
       CASE context.api_managed /\ context.api_deprecated ->
                \/ calls = <<APICall("undeprecate", id), APICall("edit", id)>>
                \/ calls = <<APICall("undeprecate", id)>> /\ result.outcome = "fail"
         [] context.api_managed /\ ~context.api_deprecated ->
                calls = <<APICall("edit", id)>>
         [] ~context.api_managed -> calls = <<APICall("manage", params.name)>>

(***************************************************************************)
(* Claims about mulesoft/ap_exchange_public_portal (checked under          *)
(* SpecPortal)                                                             *)
(***************************************************************************)
\* <<suboption, field of the draft, is an image file>>
PortalHomeFields ==
    {<<"hero_image", "heroImage", TRUE>>, <<"text_color", "textColor", FALSE>>,
     <<"welcome_title", "welcomeTitle", FALSE>>, <<"welcome_text", "welcomeText", FALSE>>}

PortalNavbarFields ==
    {<<"logo_image", "logoImage", TRUE>>, <<"fav_icon", "favicon", TRUE>>,
     <<"text_color", "textColor", FALSE>>,
     <<"text_color_active", "textColorActive", FALSE>>,
     <<"background_color", "backgroundColor", FALSE>>}

\* the dict `new` written back holds, for every field, the observed value
\* when the suboption is not given and the given value (for an image, the
\* path of the uploaded resource) when it is
PortalFrame(fields, opt, old, new) ==
    \A f \in fields :
        IF opt[f[1]] = None THEN new[f[2]] = old[f[2]]
        ELSE new[f[2]] = IF f[3] THEN PortalResourcePath(opt[f[1]]) ELSE opt[f[1]]

\* a state=modified run has sent the PUT of the draft
PortalDraftWritten ==
    /\ mod = "ap_exchange_public_portal"
    /\ params.state = "modified"
    /\ HasCall(calls, "put_draft")

\* C26: for state=modified the draft written back equals the draft read
\* except for exactly the home and navbar customization fields whose
\* parameter is specified; pages and every customization value whose
\* parameter is unspecified keep their observed value.
C26_ModifiedFrame ==
    PortalDraftWritten
    => LET old == observed[1]
           new == context.payload
       IN /\ new.pages = old.pages
          /\ new.login = old.login
          /\ PortalFrame(PortalHomeFields, params.home[1],
                         IF old.home = <<>> THEN PortalEmptyHome ELSE old.home[1],
                         new.home[1])
          /\ PortalFrame(PortalNavbarFields, params.navbar[1],
                         IF old.navbar = <<>> THEN PortalEmptyNavbar ELSE old.navbar[1],
                         new.navbar[1])
          /\ pc = "publish" => backend.draft = new

C26_Witness ==
    /\ PortalDraftWritten
    /\ pc = "publish"
    /\ params.home[1].text_color # None
    /\ params.home[1].welcome_title = None
    /\ observed[1].home # <<>>
    /\ observed[1].home[1].welcomeTitle = "Welcome"
    /\ observed[1].pages # <<>>

(***************************************************************************)
(* Claims about exchanges of ap_mq_destination (checked under SpecMQ)      *)
(***************************************************************************)
\* a state=present run for an exchange without exchange_queues has found no
\* such exchange and its PUT has created it
MQExchangeCreatedNoQueues ==
    /\ mod = "ap_mq_destination" /\ pc = "done"
    /\ ~params.check_mode
    /\ params.state = "present"
    /\ params.attributes # <<>>
    /\ params.attributes[1].type = "exchange"
    /\ ~params.attributes[1].given
    /\ observed # NotRead
    /\ HasCall(calls, "create_mq_destination")
    /\ \E i \in 1..Len(backend.destinations) :
            backend.destinations[i] = MQItem("exchange", params.name)

\* C27: with state=present, attributes.type='exchange' and exchange_queues
\* not given, when no such exchange exists the run creates the exchange,
\* issues no queue-binding call and ends successfully with changed=true.
C27_ExchangeWithoutQueues ==
    MQExchangeCreatedNoQueues
    => /\ result.outcome = "exit"
       /\ result.changed
       /\ ~HasCall(calls, "set_exchange_id_on_queues")

(***************************************************************************)
(* Claims about check mode (checked under the specification of every       *)
(* module; SpecContract holds the case that sets the modules apart)        *)
(***************************************************************************)
\* the run is a check-mode run of one of the modules `mods`
CheckModeRun(mods) == mod \in mods /\ params.check_mode

\* the modules whose tasks carry check_mode in params
CheckModeModules ==
    {"ap_account_user", "ap_api_mgr_policy", "ap_design_center_project",
     "ap_api_mgr_automated_policy", "ap_exchange_asset", "ap_mq_destination",
     "ap_account_business_group", "mulesoft.ap_account_business_group",
     "ap_api_mgr_api_contract", "mulesoft.ap_account_environment",
     "ap_runtime_mgr_cloudhub_application", "ap_api_mgr_api",
     "ap_exchange_public_portal"}

\* the modules whose check-mode exit follows the read of the backend
CheckAfterReadModules ==
    {"ap_api_mgr_api", "ap_api_mgr_policy", "ap_api_mgr_automated_policy"}

\* in check mode no mutating call is issued and changed stays false
CheckModeNoMutation ==
    CheckModeRun(CheckModeModules) => calls = <<>> /\ ~result.changed

EndedSuccessfully ==
    /\ mod \in CheckModeModules
    /\ pc = "done"
    /\ result.outcome = "exit"

\* C29: a run that ends successfully reports changed=true if and only if it
\* issued at least one mutating remote call or CLI command, and a run that
\* takes the do_nothing exit issued none.
C29_ChangedIffMutatingCall ==
    /\ EndedSuccessfully => (result.changed <=> calls # <<>>)
    /\ EndedSuccessfully /\ context.do_nothing => calls = <<>>

(***************************************************************************)
(* Claims about the identifier of the mutated resource (checked under the  *)
(* specification of every module that addresses the resource by the id the *)
(* read returned)                                                          *)
(***************************************************************************)
\* the modules whose update, transition and delete calls carry the identifier
\* that get_context took from the read
IdAddressedModules ==
    {"ap_account_user", "ap_api_mgr_policy", "ap_api_mgr_automated_policy",
     "ap_api_mgr_api", "ap_api_mgr_api_contract",
     "ap_account_business_group", "mulesoft.ap_account_business_group"}

\* the calls that act on an existing resource
ExistingResourceOps ==
    {"update_user", "enable", "disable", "delete_user", "remove", "edit",
     "PATCH", "DELETE", "undeprecate", "deprecate", "delete", "restore",
     "revoke", "update_business_group", "delete_business_group"}

====
